---- MODULE Spec2Model ----
(***************************************************************************)
(* A model of the VideoTrimmer class of src/src/index.js: the clip         *)
(* timeline (sliders), the boundary drag handlers, the media validation    *)
(* of the upload screen, the FFmpeg loader with its proactive preload and  *)
(* the per-clip trim loop.                                                  *)
(*                                                                         *)
(* Times are JavaScript numbers.  The model keeps them on a grid of        *)
(* TicksPerSecond ticks per second (a finite time t seconds is the integer *)
(* t * TicksPerSecond) and keeps the three IEEE-754 values the code can    *)
(* meet besides finite numbers: Infinity (the duration of a stream whose   *)
(* length the browser cannot tell), -Infinity and NaN.                     *)
(***************************************************************************)
EXTENDS Integers, Sequences, FiniteSets, TLC

\* ------------------------------------------------------------------ bounds
\* The longest slider list addNewSlider is allowed to build in the model.
MaxSliders == 3
\* Resolution of the time grid.
TicksPerSecond == 2

\* ------------------------------------------------- environment of the page
\* video.duration of a well-formed file, in seconds.
DurationSeconds == 100
\* rect.width of the view-video element, in pixels.
TrackWidth == 2
\* 1 * 1024 * 1024 * 1024
MAX_SIZE_IN_BYTES == 1073741824

\* ------------------------------------------------------- IEEE-754 numbers
PosInf == 1000000
NegInf == -PosInf
NaN == PosInf + 1

IsNaN(x) == x = NaN
IsFinite(x) == x # NaN /\ x # PosInf /\ x # NegInf

\* a < b, a > b, a >= b of JavaScript: false when an operand is NaN.
FLt(a, b) == ~IsNaN(a) /\ ~IsNaN(b) /\ a < b
FGt(a, b) == ~IsNaN(a) /\ ~IsNaN(b) /\ a > b
FGe(a, b) == ~IsNaN(a) /\ ~IsNaN(b) /\ a >= b

FNeg(a) == IF IsNaN(a) THEN NaN ELSE -a

FAdd(a, b) ==
    IF IsNaN(a) \/ IsNaN(b) THEN NaN
    ELSE IF a = PosInf THEN (IF b = NegInf THEN NaN ELSE PosInf)
    ELSE IF a = NegInf THEN (IF b = PosInf THEN NaN ELSE NegInf)
    ELSE IF ~IsFinite(b) THEN b
    ELSE a + b

FSub(a, b) == FAdd(a, FNeg(b))

\* a / 2 and 0.25 * a; exact on the grid for the finite values they are used on.
FHalf(a) == IF IsFinite(a) THEN a \div 2 ELSE a
FQuarter(a) == IF IsFinite(a) THEN a \div 4 ELSE a

\* Math.max and Math.min: NaN when an operand is NaN.
FMax(a, b) == IF IsNaN(a) \/ IsNaN(b) THEN NaN ELSE IF a >= b THEN a ELSE b
FMin(a, b) == IF IsNaN(a) \/ IsNaN(b) THEN NaN ELSE IF a <= b THEN a ELSE b

\* (offsetX / rect.width) * video.duration, offsetX a whole number of pixels.
NewTime(offsetX, dur) ==
    IF IsNaN(dur) THEN NaN
    ELSE IF dur = PosInf
         THEN (IF offsetX > 0 THEN PosInf ELSE IF offsetX < 0 THEN NegInf ELSE NaN)
    ELSE (offsetX * dur) \div TrackWidth

\* parseInt(x) of a number: the integer part of a finite time, NaN of
\* Infinity and NaN.  The result is in whole seconds.
ParseInt(x) ==
    IF ~IsFinite(x) THEN NaN
    ELSE IF x >= 0 THEN x \div TicksPerSecond
    ELSE -((-x) \div TicksPerSecond)

\* ------------------------------------------------------------ input sets
\* video.duration once the metadata of a file is known.
Durations == {0, DurationSeconds * TicksPerSecond, PosInf}
\* e.clientX - rect.left of a mousemove.
Offsets == (-1) .. (TrackWidth + 1)
FileTypes == {"video/mp4", "video/webm", "video/avi"}
FileSizes == {MAX_SIZE_IN_BYTES - 1, MAX_SIZE_IN_BYTES, MAX_SIZE_IN_BYTES + 1}
allowedTypes == {"video/mp4", "video/webm"}

NoDrag == [active |-> FALSE, index |-> 0, isStartGrabber |-> FALSE]

VARIABLES
    content,        \* what modal-content shows
    hidden,         \* the modal carries hide-content (resetTrimmerModal)
    videoFile,      \* videoState.file: its MIME type, or "null"
    mediaDuration,  \* the duration the browser will report for the file
    hiddenVideo,    \* the validation closure of onaddfile
    viewVideo,      \* the .view-video element of the editor
    sliders,        \* this.sliders
    slidersRendered,\* renderSliders has filled .sliders-container
    addBound,       \* #add-marker has its click listener
    drag,           \* the grabber closure whose isDragging is true
    toast           \* the toast the last step has shown

VARIABLES
    siteType,            \* this.siteType
    windowFFmpeg,        \* window.FFmpeg is defined
    ffmpegScriptLoaded,  \* this.ffmpegScriptLoaded
    ffmpeg,              \* this.ffmpeg: "undefined" or "created"
    core,                \* this.ffmpeg.isLoaded(): "null" or "loaded"
    ffmpegLoaded,        \* this.ffmpegLoaded
    loader,              \* where each caller of loadFFmpeg waits
    preloadAttempts,     \* this.preloadAttempts
    preloadTimer,        \* the delay of the pending setTimeout of preloadFFmpeg, or 0
    preloadCalls         \* how many times preloadFFmpeg has called loadFFmpeg

engVars == <<windowFFmpeg, ffmpegScriptLoaded, ffmpeg, core, ffmpegLoaded, loader,
             preloadAttempts, preloadTimer, preloadCalls>>

VARIABLES
    trimPc,          \* the await trimVideo is suspended at, or "idle"
    clipIndex,       \* i of the clip loop
    accurateSliders, \* the truncated copy of this.sliders
    trimmedVideos,   \* this.trimmedVideos
    fs,              \* the files of the FFmpeg file system
    commands,        \* the FS and run calls of the current trimVideo, in order
    progress,        \* the last report of the progress bar
    slidersAtTrim    \* this.sliders when trimVideo was called

\* What the clip loop of trimVideo owns.
loopVars == <<trimPc, clipIndex, accurateSliders, fs, commands, progress, slidersAtTrim>>

VARIABLES
    lessonResponseData,  \* this.lessonResponseData
    lessonResponseSend,  \* this.lessonResponseSend
    previews,            \* the <video> elements of the results table
    loadedCount,         \* loadedCount of renderResultsTable
    hasError,            \* hasError of renderResultsTable
    addlessons,          \* #addlessons (Submit) is in the footer
    detached,            \* the closure of a results table removed from the document
    readyEvents,         \* how many 'lessonResponseReady' events were dispatched
    uploadPc,            \* the fetch the upload is suspended at, or "idle"
    uploadIndex,         \* index of uploadNext
    uploadCompleted,     \* completed of sendVideosToSkillTriks
    uploadTotal,         \* total of sendVideosToSkillTriks
    requests,            \* the POST requests issued, in order
    committed,           \* the requests answered with a success status
    uploadError,         \* the message of the Error the upload was rejected with
    uploadProgress,      \* the last report of #submit-progress-text
    resetTimer           \* the delay of the pending setTimeout of resetTrimmerModal, or 0

\* What resetTrimmerModal clears besides the timeline and the artifacts.
recordVars == <<lessonResponseData, lessonResponseSend>>
\* What renderResultsTable owns.
tableVars == <<previews, loadedCount, hasError, addlessons, detached>>
\* What sendVideosToSkillTriks and sendVideos own.
sendVars == <<readyEvents, uploadPc, uploadIndex, uploadCompleted, uploadTotal, requests,
              committed, uploadError, uploadProgress, resetTimer>>
uploadVars == <<recordVars, tableVars, sendVars>>

VARIABLES
    clipSeconds, \* the seconds convertToHHMMSS is called with
    timeString,  \* the string calculateLessonTimeDuration is called with
    lessonTime   \* what calculateLessonTimeDuration has returned

\* What only calculateLessonTimeDuration touches.
durationVars == <<clipSeconds, timeString, lessonTime>>

vars == <<content, hidden, videoFile, mediaDuration, hiddenVideo, viewVideo, sliders,
          slidersRendered, addBound, drag, toast, siteType, engVars, loopVars,
          trimmedVideos, uploadVars, durationVars>>

\* What the handlers of the upload screen and of the editor leave alone.
pipelineVars == <<siteType, engVars, loopVars, trimmedVideos, uploadVars, durationVars>>

\* hiddenVideo: the corruptionTimeout is armed, corruptionCheckHandled, and
\* hiddenVideo.duration (NaN until the metadata is known).
NoHiddenVideo == [timer |-> FALSE, corruptionCheckHandled |-> TRUE, duration |-> NaN]
\* viewVideo: video.duration and the handler its loadedmetadata will run.
\* currentTime, paused: of its playback; watches: the slider index of every
\* checkEndTime that listens to its timeupdate, in the order they were added.
NewViewVideo(handler) ==
    [duration |-> NaN, onloadedmetadata |-> handler, currentTime |-> 0, paused |-> TRUE,
     watches |-> <<>>]

NoViewVideo == NewViewVideo("none")

Slider(s, e) == [startTime |-> s, endTime |-> e]

\* A toast: its message and the clip number the message carries (0: none).
Toast(text, clip) == [text |-> text, clip |-> clip]
NoToast == Toast("none", 0)

\* ------------------------------------------------------------ constructor
InitTimeline ==
    /\ content = "upload"
    /\ hidden = FALSE
    /\ videoFile = "null"
    /\ mediaDuration = NaN
    /\ hiddenVideo = NoHiddenVideo
    /\ viewVideo = NoViewVideo
    /\ sliders = <<>>
    /\ slidersRendered = FALSE
    /\ addBound = FALSE
    /\ drag = NoDrag
    /\ toast = NoToast

\* -------------------------------------------------- initializeFilePond
\* A faulty size check: a file of exactly the limit is rejected.
TooLargeFromLimit(size) == size >= MAX_SIZE_IN_BYTES

\* videoFile.size > MAX_SIZE_IN_BYTES
TooLarge(size) == size > MAX_SIZE_IN_BYTES

\* onaddfile: type and size validation, then the hidden validation video.
\* dur is what the browser will find in the file (NaN: nothing it can decode).
AddFile(type, size, dur) ==
    /\ content = "upload" /\ ~hidden
    /\ IF type \notin allowedTypes
       THEN /\ toast' = Toast("UnsupportedFormat", 0)
            /\ UNCHANGED <<videoFile, mediaDuration, content, hiddenVideo>>
       ELSE IF TooLarge(size)
       THEN /\ toast' = Toast("FileTooLarge", 0)
            /\ UNCHANGED <<videoFile, mediaDuration, content, hiddenVideo>>
       ELSE /\ videoFile' = type
            /\ mediaDuration' = dur
            /\ content' = "validating"
            /\ hiddenVideo' = [timer |-> TRUE, corruptionCheckHandled |-> FALSE,
                               duration |-> NaN]
            /\ toast' = NoToast
    /\ UNCHANGED <<hidden, viewVideo, sliders, slidersRendered, addBound, drag>>
    /\ UNCHANGED pipelineVars

\* The browser has read the metadata of the hidden video.
HiddenMetadataKnown ==
    /\ ~hiddenVideo.corruptionCheckHandled
    /\ IsNaN(hiddenVideo.duration) /\ ~IsNaN(mediaDuration)
    /\ hiddenVideo' = [hiddenVideo EXCEPT !.duration = mediaDuration]
    /\ toast' = NoToast
    /\ UNCHANGED <<content, hidden, videoFile, mediaDuration, viewVideo, sliders,
                   slidersRendered, addBound, drag>>
    /\ UNCHANGED pipelineVars

\* A faulty tail: the toast, but the validating placeholder stays.
StaysValidating ==
    /\ toast' = Toast("InvalidMedia", 0)
    /\ videoFile' = "null"
    /\ content' = content

\* Back to the upload form: the tail the timeout and onerror share.
ResetToUpload ==
    /\ toast' = Toast("InvalidMedia", 0)
    /\ videoFile' = "null"
    /\ content' = "upload"

\* corruptionTimeout, 5000 ms after onaddfile.
CorruptionTimeout ==
    /\ hiddenVideo.timer
    /\ IF ~hiddenVideo.corruptionCheckHandled
          /\ (IsNaN(hiddenVideo.duration) \/ hiddenVideo.duration = 0)
       THEN /\ hiddenVideo' = [hiddenVideo EXCEPT !.timer = FALSE,
                                                  !.corruptionCheckHandled = TRUE]
            /\ ResetToUpload
       ELSE /\ hiddenVideo' = [hiddenVideo EXCEPT !.timer = FALSE]
            /\ toast' = NoToast
            /\ UNCHANGED <<content, videoFile>>
    /\ UNCHANGED <<hidden, mediaDuration, viewVideo, sliders, slidersRendered,
                   addBound, drag>>
    /\ UNCHANGED pipelineVars

\* hiddenVideo.onerror
HiddenVideoError ==
    /\ IsNaN(mediaDuration)
    /\ ~hiddenVideo.corruptionCheckHandled
    /\ hiddenVideo' = [hiddenVideo EXCEPT !.timer = FALSE,
                                          !.corruptionCheckHandled = TRUE]
    /\ ResetToUpload
    /\ UNCHANGED <<hidden, mediaDuration, viewVideo, sliders, slidersRendered,
                   addBound, drag>>
    /\ UNCHANGED pipelineVars

\* hiddenVideo.onloadedmetadata: the editor is rendered; videoDetails waits
\* for the metadata of the new .view-video.
HiddenLoadedMetadata ==
    /\ ~IsNaN(hiddenVideo.duration)
    /\ ~hiddenVideo.corruptionCheckHandled
    /\ hiddenVideo' = [hiddenVideo EXCEPT !.timer = FALSE,
                                          !.corruptionCheckHandled = TRUE]
    /\ content' = "editor"
    /\ viewVideo' = NewViewVideo("videoDetails")
    /\ slidersRendered' = FALSE
    /\ addBound' = FALSE
    /\ toast' = NoToast
    /\ UNCHANGED <<hidden, videoFile, mediaDuration, sliders, drag>>
    /\ UNCHANGED pipelineVars

\* ------------------------------------------------------------ videoDetails
videoDetails ==
    /\ content = "editor"
    /\ viewVideo.onloadedmetadata = "videoDetails"
    /\ viewVideo' = [viewVideo EXCEPT !.duration = mediaDuration,
                                      !.onloadedmetadata = "none"]
    /\ sliders' = Append(sliders, Slider(0, mediaDuration))
    /\ slidersRendered' = TRUE
    /\ addBound' = TRUE
    /\ toast' = NoToast
    /\ UNCHANGED <<content, hidden, videoFile, mediaDuration, hiddenVideo, drag>>
    /\ UNCHANGED pipelineVars

\* ------------------------------------------------------------ addNewSlider
SliderLength(s) == FSub(s.endTime, s.startTime)

\* The forEach of addNewSlider: the index of longestSlider once the sliders
\* from index i on have been visited.
RECURSIVE LongestFrom(_, _, _)
LongestFrom(s, i, best) ==
    IF i > Len(s) THEN best
    ELSE LongestFrom(s, i + 1,
                     IF FGt(SliderLength(s[i]), SliderLength(s[best])) THEN i ELSE best)

\* A faulty scan, comparing with >=: it keeps the last of the longest sliders.
LastLongestSlider(s) ==
    CHOOSE j \in 1 .. Len(s) :
        /\ \A k \in 1 .. Len(s) : ~FGt(SliderLength(s[k]), SliderLength(s[j]))
        /\ \A k \in (j + 1) .. Len(s) : ~FGe(SliderLength(s[k]), SliderLength(s[j]))

LongestSlider(s) == LongestFrom(s, 1, 1)

\* A faulty new slider: a quarter of the longest one, not half of it.
EighthSplit(longestSlider) ==
    LET midTime == FHalf(FAdd(longestSlider.startTime, longestSlider.endTime))
        eighth == FHalf(FQuarter(SliderLength(longestSlider)))
    IN  Slider(FSub(midTime, eighth), FAdd(midTime, eighth))

NewSlider(longestSlider) ==
    LET midTime == FHalf(FAdd(longestSlider.startTime, longestSlider.endTime))
        quarter == FQuarter(SliderLength(longestSlider))
    IN  Slider(FSub(midTime, quarter), FAdd(midTime, quarter))

\* The grid holds the new slider exactly.
OnGrid(longestSlider) ==
    IsFinite(SliderLength(longestSlider)) => SliderLength(longestSlider) % 4 = 0

\* this.sliders after addNewSlider.
AddBySplit(s) ==
    IF Len(s) = 0 THEN s ELSE Append(s, NewSlider(s[LongestSlider(s)]))

addNewSlider ==
    /\ content = "editor" /\ ~hidden /\ addBound /\ ~drag.active
    /\ Len(sliders) < MaxSliders
    /\ Len(sliders) > 0 => OnGrid(sliders[LongestSlider(sliders)])
    /\ sliders' = AddBySplit(sliders)
    /\ slidersRendered' = IF Len(sliders) = 0 THEN slidersRendered ELSE TRUE
    /\ toast' = NoToast
    /\ UNCHANGED <<content, hidden, videoFile, mediaDuration, hiddenVideo, viewVideo,
                   addBound, drag>>
    /\ UNCHANGED pipelineVars

\* ------------------------------------------------------------ removeSlider
\* A faulty filter: an index past the end drops the last slider.
RemoveOrLast(s, index) ==
    IF Len(s) = 0 THEN s
    ELSE LET at == IF index \in 1 .. Len(s) THEN index ELSE Len(s)
         IN  [k \in 1 .. (Len(s) - 1) |-> IF k >= at THEN s[k + 1] ELSE s[k]]

\* s.filter((_, i) => index !== i), the indices counted from 1.
RemoveAt(s, index) ==
    LET keep == {k \in 1 .. Len(s) : k # index}
    IN  [k \in 1 .. Cardinality(keep) |->
            IF index \in 1 .. Len(s) /\ k >= index THEN s[k + 1] ELSE s[k]]

\* A faulty template: a Remove button on the only row as well.
RemoveOfferedOnEveryRow(n) == n > 0

\* this.sliders.length > 1 of renderSliders, this.trimmedVideos.length > 1 of
\* renderResultsTable: the rows have a Remove button.
RemoveOffered(n) == n > 1

\* The Remove buttons exist when renderSliders ran with more than one slider.
removeSlider(index) ==
    /\ content = "editor" /\ ~hidden /\ ~drag.active
    /\ slidersRendered /\ RemoveOffered(Len(sliders))
    /\ index \in 1 .. Len(sliders)
    /\ sliders' = RemoveAt(sliders, index)
    /\ toast' = NoToast
    /\ UNCHANGED <<content, hidden, videoFile, mediaDuration, hiddenVideo, viewVideo,
                   slidersRendered, addBound, drag>>
    /\ UNCHANGED pipelineVars

\* ------------------------------------------------------ makeGrabberDraggable
\* mousedown on the start or end grabber of slider sliderIndex.
MouseDown(sliderIndex, isStartGrabber) ==
    /\ content = "editor" /\ ~hidden /\ ~drag.active
    /\ slidersRendered
    /\ sliderIndex \in 1 .. Len(sliders)
    /\ drag' = [active |-> TRUE, index |-> sliderIndex, isStartGrabber |-> isStartGrabber]
    /\ toast' = NoToast
    /\ UNCHANGED <<content, hidden, videoFile, mediaDuration, hiddenVideo, viewVideo,
                   sliders, slidersRendered, addBound>>
    /\ UNCHANGED pipelineVars

\* A faulty handleMouseMove, without Math.max and Math.min.
SetBoundaryUnclamped(s, sliderIndex, isStartGrabber, newTime, videoDuration) ==
    IF isStartGrabber
    THEN IF FLt(newTime, s[sliderIndex].endTime)
         THEN [s EXCEPT ![sliderIndex].startTime = newTime]
         ELSE s
    ELSE IF FGt(newTime, s[sliderIndex].startTime)
         THEN [s EXCEPT ![sliderIndex].endTime = newTime]
         ELSE s

\* this.sliders after handleMouseMove of the closure (sliderIndex,
\* isStartGrabber) has seen newTime.
SetBoundary(s, sliderIndex, isStartGrabber, newTime, videoDuration) ==
    IF isStartGrabber
    THEN IF FLt(newTime, s[sliderIndex].endTime)
         THEN [s EXCEPT ![sliderIndex].startTime = FMax(newTime, 0)]
         ELSE s
    ELSE IF FGt(newTime, s[sliderIndex].startTime)
         THEN [s EXCEPT ![sliderIndex].endTime = FMin(newTime, videoDuration)]
         ELSE s

handleMouseMove(offsetX) ==
    /\ drag.active
    /\ drag.index \in 1 .. Len(sliders)
    /\ sliders' = SetBoundary(sliders, drag.index, drag.isStartGrabber,
                              NewTime(offsetX, viewVideo.duration), viewVideo.duration)
    /\ viewVideo' = IF drag.isStartGrabber
                        /\ FLt(NewTime(offsetX, viewVideo.duration),
                               sliders[drag.index].endTime)
                    THEN [viewVideo EXCEPT !.currentTime = sliders'[drag.index].startTime]
                    ELSE viewVideo
    /\ slidersRendered' = TRUE
    /\ toast' = NoToast
    /\ UNCHANGED <<content, hidden, videoFile, mediaDuration, hiddenVideo, addBound, drag>>
    /\ UNCHANGED pipelineVars

\* mouseup on the document.
MouseUp ==
    /\ drag.active
    /\ drag' = NoDrag
    /\ toast' = NoToast
    /\ UNCHANGED <<content, hidden, videoFile, mediaDuration, hiddenVideo, viewVideo,
                   sliders, slidersRendered, addBound>>
    /\ UNCHANGED pipelineVars

\* -------------------------------------------------------- resetTrimmerModal
\* A faulty reset, keeping the records of the lessons created.
resetKeepsRecords ==
    /\ hidden' = TRUE
    /\ trimmedVideos' = <<>>
    /\ sliders' = <<>>
    /\ UNCHANGED <<lessonResponseSend, lessonResponseData>>
    /\ videoFile' = "null"

resetTrimmerModal ==
    /\ hidden' = TRUE
    /\ trimmedVideos' = <<>>
    /\ sliders' = <<>>
    /\ lessonResponseSend' = FALSE
    /\ lessonResponseData' = <<>>
    /\ videoFile' = "null"

\* click on #closeButton
Close ==
    /\ ~hidden /\ ~drag.active
    /\ resetTrimmerModal
    /\ toast' = NoToast
    /\ UNCHANGED <<durationVars, content, mediaDuration, hiddenVideo, viewVideo, slidersRendered,
                   addBound, drag>>
    /\ UNCHANGED <<siteType, engVars, loopVars, tableVars, sendVars>>

\* ============================================================== loadFFmpeg
maxPreloadAttempts == 3

\* loadFFmpeg from the check of window.FFmpeg on: what the call does next
\* ("throw", "load": it awaits this.ffmpeg.load(), "return") and this.ffmpeg.
AfterScript(win, inst, cr) ==
    IF ~win THEN [result |-> "throw", ffmpeg |-> inst]
    ELSE IF inst = "created" /\ cr = "loaded" THEN [result |-> "return", ffmpeg |-> "created"]
    ELSE [result |-> "load", ffmpeg |-> "created"]

\* loadFFmpeg from its first line to its first pending await ("script": it
\* awaits the script tag of loadFFmpegScript).
LoadFFmpegEntry ==
    IF ffmpegLoaded /\ ffmpeg = "created" /\ core = "loaded"
    THEN [result |-> "return", ffmpeg |-> ffmpeg, scriptLoaded |-> ffmpegScriptLoaded]
    ELSE IF ~ffmpegScriptLoaded /\ ~windowFFmpeg
    THEN [result |-> "script", ffmpeg |-> ffmpeg, scriptLoaded |-> FALSE]
    ELSE LET r == AfterScript(windowFFmpeg, ffmpeg, core)
         IN  [result |-> r.result, ffmpeg |-> r.ffmpeg, scriptLoaded |-> TRUE]

Waits(result) == IF result \in {"script", "load"} THEN result ELSE "idle"

\* A faulty backoff: every retry after the same delay.
RetryDelayFixed(attempts) == 1000

\* retryDelay after the attempts-th failure, in milliseconds.
RetryDelay(attempts) ==
    IF 1000 * 2 ^ (attempts - 1) <= 5000 THEN 1000 * 2 ^ (attempts - 1) ELSE 5000

\* A faulty catch of preloadFFmpeg, scheduling a retry after the last attempt.
PreloadRetriesOnceMore(result) ==
    IF result = "throw"
    THEN /\ preloadAttempts' = preloadAttempts + 1
         /\ preloadTimer' = IF preloadAttempts + 1 <= maxPreloadAttempts
                           THEN RetryDelay(preloadAttempts + 1) ELSE 0
    ELSE /\ UNCHANGED preloadAttempts
         /\ preloadTimer' = 0

\* The catch of preloadFFmpeg: the new preloadAttempts and the delay of the
\* retry it schedules (0: none).
PreloadSettled(result) ==
    IF result = "throw"
    THEN /\ preloadAttempts' = preloadAttempts + 1
         /\ preloadTimer' = IF preloadAttempts + 1 < maxPreloadAttempts
                           THEN RetryDelay(preloadAttempts + 1) ELSE 0
    ELSE /\ UNCHANGED preloadAttempts
         /\ preloadTimer' = 0

uiVars == <<content, hidden, videoFile, mediaDuration, hiddenVideo, viewVideo, sliders,
            slidersRendered, addBound, drag, siteType>>

\* ------------------------------------------------------------ preloadFFmpeg
\* The retry timer of preloadFFmpeg fires: preloadFFmpeg runs again.
preloadFFmpeg ==
    /\ preloadTimer # 0
    /\ LET r == LoadFFmpegEntry
       IN  /\ ffmpegScriptLoaded' = r.scriptLoaded
           /\ ffmpeg' = r.ffmpeg
           /\ loader' = [loader EXCEPT !.preload = Waits(r.result)]
           /\ PreloadSettled(r.result)
    /\ preloadCalls' = preloadCalls + 1
    /\ UNCHANGED <<windowFFmpeg, core, ffmpegLoaded>>
    /\ toast' = NoToast
    /\ UNCHANGED <<uiVars, loopVars, trimmedVideos, uploadVars, durationVars>>

\* script.onload of the tag preloadFFmpeg waits for; defines: the script
\* has set window.FFmpeg.
PreloadScriptOnload(defines) ==
    /\ loader.preload = "script"
    /\ windowFFmpeg' = (windowFFmpeg \/ defines)
    /\ ffmpegScriptLoaded' = TRUE
    /\ LET r == AfterScript(windowFFmpeg', ffmpeg, core)
       IN  /\ ffmpeg' = r.ffmpeg
           /\ loader' = [loader EXCEPT !.preload = Waits(r.result)]
           /\ PreloadSettled(r.result)
    /\ UNCHANGED <<core, ffmpegLoaded, preloadCalls>>
    /\ toast' = NoToast
    /\ UNCHANGED <<uiVars, loopVars, trimmedVideos, uploadVars, durationVars>>

\* script.onerror
PreloadScriptOnerror ==
    /\ loader.preload = "script"
    /\ loader' = [loader EXCEPT !.preload = "idle"]
    /\ PreloadSettled("throw")
    /\ UNCHANGED <<windowFFmpeg, ffmpegScriptLoaded, ffmpeg, core, ffmpegLoaded,
                   preloadCalls>>
    /\ toast' = NoToast
    /\ UNCHANGED <<uiVars, loopVars, trimmedVideos, uploadVars, durationVars>>

\* this.ffmpeg.load() resolves
PreloadLoadResolved ==
    /\ loader.preload = "load"
    /\ core' = "loaded"
    /\ ffmpegLoaded' = TRUE
    /\ loader' = [loader EXCEPT !.preload = "idle"]
    /\ PreloadSettled("return")
    /\ UNCHANGED <<windowFFmpeg, ffmpegScriptLoaded, ffmpeg, preloadCalls>>
    /\ toast' = NoToast
    /\ UNCHANGED <<uiVars, loopVars, trimmedVideos, uploadVars, durationVars>>

\* this.ffmpeg.load() rejects
PreloadLoadRejected ==
    /\ loader.preload = "load"
    /\ loader' = [loader EXCEPT !.preload = "idle"]
    /\ PreloadSettled("throw")
    /\ UNCHANGED <<windowFFmpeg, ffmpegScriptLoaded, ffmpeg, core, ffmpegLoaded,
                   preloadCalls>>
    /\ toast' = NoToast
    /\ UNCHANGED <<uiVars, loopVars, trimmedVideos, uploadVars, durationVars>>

\* The engine right after the constructor: preloadFFmpeg has made its first
\* call of loadFFmpeg.
InitEngine ==
    /\ windowFFmpeg = FALSE
    /\ ffmpegScriptLoaded = windowFFmpeg
    /\ ffmpeg = IF windowFFmpeg THEN "created" ELSE "undefined"
    /\ core = "null"
    /\ ffmpegLoaded = FALSE
    /\ loader = [preload |-> IF windowFFmpeg THEN "load" ELSE "script", trim |-> "idle"]
    /\ preloadAttempts = 0
    /\ preloadTimer = 0
    /\ preloadCalls = 1

\* =============================================================== trimVideo
\* convertToHHMMSS of a whole number of seconds: the numbers between the
\* colons, <<minutes, seconds>> when the hours are "00".
ConvertToHHMMSS(val) ==
    IF IsNaN(val) THEN <<NaN, NaN, NaN>>
    ELSE IF ~IsFinite(val) THEN <<val, NaN, NaN>>
    ELSE LET hours == val \div 3600
             minutes == (val % 3600) \div 60
             seconds == val % 60
         IN  IF hours = 0 THEN <<minutes, seconds>> ELSE <<hours, minutes, seconds>>

\* accurateSliders: parseInt of both ends of every slider.
AccurateSliders(s) ==
    [k \in 1 .. Len(s) |-> Slider(ParseInt(s[k].startTime), ParseInt(s[k].endTime))]

\* A faulty validation, letting clips of no length through.
EmptyClipsAllowed(acc) ==
    {k \in 1 .. Len(acc) : FGt(acc[k].startTime, acc[k].endTime)}

\* The clips the validation loop of trimVideo rejects.
InvalidClips(acc) ==
    {k \in 1 .. Len(acc) : FGe(acc[k].startTime, acc[k].endTime)}

Min(S) == CHOOSE x \in S : \A y \in S : x <= y

\* A faulty entry: every artifact is cut at the first clip.
ArtifactOfFirstClip(i, clip, type, site) ==
    [name |-> <<IF site = "skilltriks" THEN "lesson" ELSE "video", i + 1>>,
     file |-> <<"video", i + 1>>,
     clip |-> accurateSliders[1],
     duration |-> ConvertToHHMMSS(FSub(clip.endTime, clip.startTime)),
     type |-> type]

\* A faulty entry, named video{n} on every site.
ArtifactNamedVideo(i, clip, type, site) ==
    [name |-> <<"video", i + 1>>,
     file |-> <<"video", i + 1>>,
     clip |-> clip,
     duration |-> ConvertToHHMMSS(FSub(clip.endTime, clip.startTime)),
     type |-> type]

\* The entry trimVideo pushes for clip i (counted from 0) cut at clip.
Artifact(i, clip, type, site) ==
    [name |-> <<IF site = "skilltriks" THEN "lesson" ELSE "video", i + 1>>,
     file |-> <<"video", i + 1>>,
     clip |-> clip,
     duration |-> ConvertToHHMMSS(FSub(clip.endTime, clip.startTime)),
     type |-> type]

Report(completed, total, percent) ==
    [completed |-> completed, total |-> total, percent |-> percent]

\* A faulty percentage, rounded up.
PercentageRoundedUp(clipsCompleted, totalClips) ==
    (clipsCompleted * 100 + totalClips - 1) \div totalClips

\* Math.floor((clipsCompleted / this.totalClips) * 100)
Percentage(clipsCompleted, totalClips) == (clipsCompleted * 100) \div totalClips

\* The results table is not in the modal: no <video> of it, no Submit.
\* The closure of a results table whose <video> elements are no longer in the
\* document: how many calls of success its loadedCount is short of
\* totalVideos (0: finalize can no longer find them equal).  One such closure
\* is remembered.  live: the browser goes on loading a <video> that was
\* removed from the document and fires its loadedmetadata and canplay.
NoDetached(live) == [live |-> live, missing |-> 0]

\* The calls of success the previews can still make: loadedmetadata and
\* canplay of a loading one, canplay of one whose metadata is loaded.
RECURSIVE EventsLeft(_)
EventsLeft(p) ==
    IF p = <<>> THEN 0
    ELSE (IF Head(p) = "loading" THEN 2 ELSE IF Head(p) = "metadata" THEN 1 ELSE 0)
         + EventsLeft(Tail(p))

\* modalContent.innerHTML is replaced: the table on screen, if its finalize
\* can still find loadedCount === totalVideos, is the detached one from now on.
Detach ==
    IF detached.live /\ ~hasError /\ loadedCount < Len(previews)
          /\ EventsLeft(previews) >= Len(previews) - loadedCount
    THEN [detached EXCEPT !.missing = Len(previews) - loadedCount]
    ELSE detached

NoResultsTable ==
    /\ previews' = <<>>
    /\ loadedCount' = 0
    /\ hasError' = FALSE
    /\ addlessons' = FALSE
    /\ detached' = Detach

\* renderResultsTable of n artifacts: the table with its n <video> elements
\* loading, the footer emptied.
renderResultsTable(n) ==
    /\ previews' = [k \in 1 .. n |-> "loading"]
    /\ loadedCount' = 0
    /\ hasError' = FALSE
    /\ addlessons' = FALSE
    /\ detached' = Detach

\* renderVideoPlayer: the editor again, with an empty this.trimmedVideos; the
\* new .view-video renders the sliders once its metadata is loaded.
renderVideoPlayer ==
    /\ content' = "editor"
    /\ addBound' = TRUE
    /\ slidersRendered' = FALSE
    /\ trimmedVideos' = <<>>
    /\ NoResultsTable
    /\ viewVideo' = NewViewVideo(IF videoFile = "null" THEN "none" ELSE "renderSliders")

\* loadedmetadata of the .view-video renderVideoPlayer made: renderSliders.
ViewLoadedMetadata ==
    /\ content = "editor"
    /\ viewVideo.onloadedmetadata = "renderSliders"
    /\ viewVideo' = [viewVideo EXCEPT !.duration = mediaDuration,
                                      !.onloadedmetadata = "none"]
    /\ slidersRendered' = TRUE
    /\ toast' = NoToast
    /\ UNCHANGED <<durationVars, content, hidden, videoFile, mediaDuration, hiddenVideo, sliders,
                   addBound, drag, siteType>>
    /\ UNCHANGED <<engVars, loopVars, trimmedVideos, uploadVars>>

\* A faulty catch of loadFFmpeg in trimVideo: the loader stays, no retry
\* button is rendered.
TrimAfterLoadKeepsLoader(result) ==
    /\ toast' = IF result = "throw" THEN Toast("EngineUnavailable", 0) ELSE NoToast
    /\ content' = "loader"
    /\ trimPc' = IF result = "return" THEN "fetchFile"
                 ELSE IF result = "throw" THEN "idle" ELSE "loadFFmpeg"

\* trimVideo once loadFFmpeg has settled or waits: the error screen with the
\* retry button, or the loader and the next await.
TrimAfterLoad(result) ==
    IF result = "throw"
    THEN /\ toast' = Toast("EngineUnavailable", 0)
         /\ content' = "engineError"
         /\ trimPc' = "idle"
    ELSE /\ toast' = NoToast
         /\ content' = "loader"
         /\ trimPc' = IF result = "return" THEN "fetchFile" ELSE "loadFFmpeg"

\* click on #trimvideo, or on #retry-ffmpeg of the error screen: trimVideo up
\* to its first pending await.
trimVideo ==
    /\ content \in {"editor", "engineError"} /\ ~hidden /\ ~drag.active
    /\ (content = "editor") => ~addlessons
    /\ trimPc = "idle"
    /\ IF videoFile = "null" \/ Len(sliders) = 0
       THEN /\ toast' = Toast(IF videoFile = "null" THEN "NoFile" ELSE "EmptyTimeline", 0)
            /\ UNCHANGED <<content, viewVideo, slidersRendered, addBound, trimPc,
                           commands, progress, slidersAtTrim, ffmpegScriptLoaded, ffmpeg,
                           loader, addlessons>>
       ELSE /\ slidersAtTrim' = sliders
            /\ addlessons' = FALSE
            /\ commands' = <<>>
            /\ progress' = Report(0, 0, 0)
            /\ viewVideo' = NoViewVideo
            /\ slidersRendered' = FALSE
            /\ addBound' = FALSE
            /\ LET r == LoadFFmpegEntry
               IN  /\ ffmpegScriptLoaded' = r.scriptLoaded
                   /\ ffmpeg' = r.ffmpeg
                   /\ loader' = [loader EXCEPT !.trim = Waits(r.result)]
                   /\ TrimAfterLoad(r.result)
    /\ UNCHANGED <<durationVars, hidden, videoFile, mediaDuration, hiddenVideo, sliders, drag, siteType>>
    /\ UNCHANGED <<windowFFmpeg, core, ffmpegLoaded, preloadAttempts, preloadTimer,
                   preloadCalls>>
    /\ UNCHANGED <<clipIndex, accurateSliders, fs, trimmedVideos, recordVars, sendVars,
                   previews, loadedCount, hasError, detached>>

\* What the loadFFmpeg steps of trimVideo leave alone.
trimLoadFrame ==
    <<hidden, videoFile, mediaDuration, hiddenVideo, viewVideo, sliders, slidersRendered,
      addBound, drag, siteType, preloadAttempts, preloadTimer, preloadCalls, clipIndex,
      accurateSliders, fs, commands, progress, slidersAtTrim, trimmedVideos, uploadVars>>

TrimScriptOnload(defines) ==
    /\ loader.trim = "script"
    /\ windowFFmpeg' = (windowFFmpeg \/ defines)
    /\ ffmpegScriptLoaded' = TRUE
    /\ LET r == AfterScript(windowFFmpeg', ffmpeg, core)
       IN  /\ ffmpeg' = r.ffmpeg
           /\ loader' = [loader EXCEPT !.trim = Waits(r.result)]
           /\ TrimAfterLoad(r.result)
    /\ UNCHANGED <<durationVars, core, ffmpegLoaded>>
    /\ UNCHANGED trimLoadFrame

TrimScriptOnerror ==
    /\ loader.trim = "script"
    /\ loader' = [loader EXCEPT !.trim = "idle"]
    /\ TrimAfterLoad("throw")
    /\ UNCHANGED <<durationVars, windowFFmpeg, ffmpegScriptLoaded, ffmpeg, core, ffmpegLoaded>>
    /\ UNCHANGED trimLoadFrame

TrimLoadResolved ==
    /\ loader.trim = "load"
    /\ core' = "loaded"
    /\ ffmpegLoaded' = TRUE
    /\ loader' = [loader EXCEPT !.trim = "idle"]
    /\ TrimAfterLoad("return")
    /\ UNCHANGED <<durationVars, windowFFmpeg, ffmpegScriptLoaded, ffmpeg>>
    /\ UNCHANGED trimLoadFrame

TrimLoadRejected ==
    /\ loader.trim = "load"
    /\ loader' = [loader EXCEPT !.trim = "idle"]
    /\ TrimAfterLoad("throw")
    /\ UNCHANGED <<durationVars, windowFFmpeg, ffmpegScriptLoaded, ffmpeg, core, ffmpegLoaded>>
    /\ UNCHANGED trimLoadFrame

\* fetchFile(videoFile) of trimVideo settles: the file-access error, or the
\* format check, the truncation, the validation of every clip and the first
\* iteration of the clip loop up to its fetchFile.
TrimFetchFileDone(ok) ==
    /\ trimPc = "fetchFile"
    /\ trimPc' = IF ok /\ videoFile # "null" /\ InvalidClips(AccurateSliders(sliders)) = {}
                 THEN "clipFetch" ELSE "idle"
    /\ IF ~ok \/ videoFile = "null"
       THEN \* the catch of fetchFile, or the TypeError of this.videoState.file.type
            /\ toast' = Toast(IF ~ok THEN "FileAccess" ELSE "Unexpected", 0)
            /\ resetTrimmerModal
            /\ UNCHANGED <<content, viewVideo, slidersRendered, addBound, clipIndex,
                           accurateSliders, progress, tableVars>>
       ELSE LET acc == AccurateSliders(sliders)
            IN  IF InvalidClips(acc) # {}
                THEN /\ toast' = Toast("InvalidClip", Min(InvalidClips(acc)))
                     /\ renderVideoPlayer
                     /\ UNCHANGED <<hidden, videoFile, sliders, clipIndex,
                                    accurateSliders, progress, recordVars>>
                ELSE /\ accurateSliders' = acc
                     /\ trimmedVideos' = <<>>
                     /\ progress' = Report(0, Len(acc), 0)
                     /\ clipIndex' = 0
                     /\ toast' = NoToast
                     /\ UNCHANGED <<content, viewVideo, slidersRendered, addBound, hidden,
                                    videoFile, sliders, recordVars, tableVars>>
    /\ UNCHANGED <<durationVars, mediaDuration, hiddenVideo, drag, siteType, fs, commands, slidersAtTrim>>
    /\ UNCHANGED sendVars
    /\ UNCHANGED engVars

\* A faulty catch, keeping the artifacts of the clips before the failed one.
ClipErrorKeepsArtifacts(text) ==
    /\ toast' = Toast(text, clipIndex + 1)
    /\ content' = "editor"
    /\ addBound' = TRUE
    /\ slidersRendered' = FALSE
    /\ UNCHANGED trimmedVideos
    /\ NoResultsTable
    /\ viewVideo' = NewViewVideo(IF videoFile = "null" THEN "none" ELSE "renderSliders")
    /\ trimPc' = "idle"
    /\ clipIndex' = 0
    /\ accurateSliders' = <<>>

\* The catch (clipError) of the clip loop; trimVideo returns, its locals are
\* gone.
ClipError(text) ==
    /\ toast' = Toast(text, clipIndex + 1)
    /\ renderVideoPlayer
    /\ trimPc' = "idle"
    /\ clipIndex' = 0
    /\ accurateSliders' = <<>>

\* A faulty loop, calling ffmpeg.run of clip n without awaiting the one
\* before.
PreparedWithoutAwait(n, ok, writeOk) ==
    IF ok THEN <<<<"writeFile", n>>>>
               \o (IF writeOk THEN <<<<"run", n>>, <<"run", n + 1>>>> ELSE <<>>)
    ELSE <<>>

\* The calls of this.ffmpeg an iteration makes for clip n up to its await of
\* ffmpeg.run: FS('writeFile') once fetchFile has resolved, run once the file
\* is written.
Prepared(n, ok, writeOk) ==
    IF ok THEN <<<<"writeFile", n>>>> \o (IF writeOk THEN <<<<"run", n>>>> ELSE <<>>)
    ELSE <<>>

\* fetchFile and FS('writeFile') of clip i settle; then ffmpeg.run is called.
ClipFetchDone(ok, writeOk) ==
    /\ trimPc = "clipFetch"
    /\ commands' = commands \o Prepared(clipIndex + 1, ok, writeOk)
    /\ IF ok /\ writeOk
       THEN /\ fs' = fs \cup {<<"input", clipIndex + 1>>}
            /\ trimPc' = "clipRun"
            /\ toast' = NoToast
            /\ UNCHANGED <<content, viewVideo, slidersRendered, addBound, trimmedVideos,
                           clipIndex, accurateSliders, tableVars>>
       ELSE /\ ClipError("PrepareFailed")
            /\ UNCHANGED fs
    /\ UNCHANGED <<durationVars, hidden, videoFile, mediaDuration, hiddenVideo, sliders, drag, siteType>>
    /\ UNCHANGED <<progress, slidersAtTrim, recordVars, sendVars>>
    /\ UNCHANGED engVars

\* The FFmpeg file system after the two unlink calls.
Unlinked(files, n, cleanup) ==
    IF cleanup = "ok" THEN files \ {<<"input", n>>, <<"video", n>>}
    ELSE IF cleanup = "failSecond" THEN files \ {<<"input", n>>}
    ELSE files

\* A faulty iteration, without the try around the two unlink calls.
CleanupFailureEscalates(outcome, cleanup) ==
    IF outcome = "missing" THEN "ReadFailed"
    ELSE IF outcome = "empty" THEN "EmptyOutput"
    ELSE IF videoFile = "null" \/ cleanup # "ok" THEN "Unexpected"
    ELSE "none"

\* What the catch (clipError) is given once ffmpeg.run has resolved: the
\* readFile error, the empty output, the TypeError of this.videoState.file.type
\* ("none": nothing is thrown; the error of an unlink is caught and logged).
ClipFailure(outcome, cleanup) ==
    IF outcome = "missing" THEN "ReadFailed"
    ELSE IF outcome = "empty" THEN "EmptyOutput"
    ELSE IF videoFile = "null" THEN "Unexpected"
    ELSE "none"

\* ffmpeg.run of clip i settles ("reject"), having written no output
\* ("missing"), an empty one ("empty") or a clip ("data"); then the rest of
\* the iteration, and the next iteration up to its fetchFile or the results.
ClipRunDone(outcome, cleanup) ==
    /\ trimPc = "clipRun"
    /\ LET n == clipIndex + 1
           total == Len(accurateSliders)
           written == IF outcome \in {"empty", "data"} THEN fs \cup {<<"video", n>>} ELSE fs
       IN  IF outcome = "reject"
           THEN /\ ClipError("TrimFailed")
                /\ UNCHANGED <<fs, commands, progress>>
           ELSE IF ClipFailure(outcome, cleanup) # "none"
           THEN /\ ClipError(ClipFailure(outcome, cleanup))
                /\ progress' = Report(n, total, Percentage(n, total))
                /\ commands' = Append(commands, <<"readFile", n>>)
                /\ fs' = written
           ELSE /\ commands' = commands \o <<<<"readFile", n>>, <<"unlink", n>>>>
                /\ fs' = Unlinked(written, n, cleanup)
                /\ toast' = NoToast
                /\ UNCHANGED <<viewVideo, slidersRendered, addBound>>
                /\ trimmedVideos' = Append(trimmedVideos,
                        Artifact(clipIndex, accurateSliders[n], videoFile, siteType))
                /\ IF n < total
                   THEN /\ clipIndex' = n
                        /\ trimPc' = "clipFetch"
                        /\ progress' = Report(n, total, Percentage(n, total))
                        /\ UNCHANGED <<content, accurateSliders, tableVars>>
                   ELSE /\ progress' = Report(n, total, 100)
                        /\ content' = "results"
                        /\ renderResultsTable(n)
                        /\ trimPc' = "idle"
                        /\ clipIndex' = 0
                        /\ accurateSliders' = <<>>
    /\ UNCHANGED <<durationVars, hidden, videoFile, mediaDuration, hiddenVideo, sliders, drag, siteType>>
    /\ UNCHANGED <<slidersAtTrim, recordVars, sendVars>>
    /\ UNCHANGED engVars

\* ------------------------------------------------------- the results table
\* A faulty removal, leaving this.sliders as it is.
removeTrimmedVideoOnly(index) ==
    /\ content = "results" /\ ~hidden
    /\ RemoveOffered(Len(trimmedVideos))
    /\ index \in 1 .. Len(trimmedVideos)
    /\ trimmedVideos' = RemoveAt(trimmedVideos, index)
    /\ sliders' = sliders
    /\ renderResultsTable(Len(trimmedVideos) - 1)
    /\ toast' = NoToast
    /\ UNCHANGED <<durationVars, content, hidden, videoFile, mediaDuration, hiddenVideo, viewVideo,
                   slidersRendered, addBound, drag, siteType>>
    /\ UNCHANGED <<engVars, loopVars, recordVars, sendVars>>

\* click on a Remove button of the results table
removeTrimmedVideo(index) ==
    /\ content = "results" /\ ~hidden
    /\ RemoveOffered(Len(trimmedVideos))
    /\ index \in 1 .. Len(trimmedVideos)
    /\ trimmedVideos' = RemoveAt(trimmedVideos, index)
    /\ sliders' = RemoveAt(sliders, index)
    /\ renderResultsTable(Len(trimmedVideos) - 1)
    /\ toast' = NoToast
    /\ UNCHANGED <<durationVars, content, hidden, videoFile, mediaDuration, hiddenVideo, viewVideo,
                   slidersRendered, addBound, drag, siteType>>
    /\ UNCHANGED <<engVars, loopVars, recordVars, sendVars>>

\* click on #backtoedit
BackToEdit ==
    /\ content = "results" /\ ~hidden
    /\ renderVideoPlayer
    /\ toast' = NoToast
    /\ UNCHANGED <<durationVars, hidden, videoFile, mediaDuration, hiddenVideo, sliders, drag, siteType>>
    /\ UNCHANGED <<engVars, loopVars, recordVars, sendVars>>

\* ------------------------------------------------------ the specifications
InitLoop ==
    /\ trimPc = "idle"
    /\ clipIndex = 0
    /\ accurateSliders = <<>>
    /\ trimmedVideos = <<>>
    /\ fs = {}
    /\ commands = <<>>
    /\ progress = Report(0, 0, 0)
    /\ slidersAtTrim = <<>>

\* The constructor: nothing sent, no results table.
InitUploadOf(live) ==
    /\ lessonResponseData = <<>>
    /\ lessonResponseSend = FALSE
    /\ previews = <<>>
    /\ loadedCount = 0
    /\ hasError = FALSE
    /\ addlessons = FALSE
    /\ detached = NoDetached(live)
    /\ readyEvents = 0
    /\ uploadPc = "idle"
    /\ uploadIndex = 0
    /\ uploadCompleted = 0
    /\ uploadTotal = 0
    /\ requests = <<>>
    /\ committed = {}
    /\ uploadError = "none"
    /\ uploadProgress = Report(0, 0, 0)
    /\ resetTimer = 0

\* The same where <video> elements removed from the document fire no events.
InitUpload == InitUploadOf(FALSE)

\* calculateLessonTimeDuration has not been called.
NoLessonTime == [duration |-> 0, duration_type |-> "none"]

InitDuration ==
    /\ clipSeconds = 0
    /\ timeString = <<>>
    /\ lessonTime = NoLessonTime

\* The timeline from the constructor on, the FFmpeg preload left aside.
InitSpecTimeline ==
    /\ InitTimeline
    /\ siteType = "normal"
    /\ InitEngine /\ ~windowFFmpeg
    /\ InitLoop
    /\ InitUpload
    /\ InitDuration

NextTimeline ==
    \/ \E type \in FileTypes, size \in FileSizes, dur \in Durations \cup {NaN} :
          AddFile(type, size, dur)
    \/ HiddenMetadataKnown
    \/ CorruptionTimeout
    \/ HiddenVideoError
    \/ HiddenLoadedMetadata
    \/ videoDetails
    \/ addNewSlider
    \/ \E index \in 1 .. MaxSliders : removeSlider(index)
    \/ \E sliderIndex \in 1 .. MaxSliders, isStartGrabber \in BOOLEAN :
          MouseDown(sliderIndex, isStartGrabber)
    \/ \E offsetX \in Offsets : handleMouseMove(offsetX)
    \/ MouseUp
    \/ Close

SpecTimeline == InitSpecTimeline /\ [][NextTimeline]_vars

\* The sliders the editor can hold when Trim is clicked on a file of
\* duration dur: the full span, a clip across a whole second and a clip
\* inside one second, in any order.
ClipChoices(dur) ==
    IF dur = PosInf THEN {Slider(0, PosInf)}
    ELSE {Slider(0, dur), Slider(dur \div 2 - 1, dur \div 2 + 1),
          Slider(dur \div 2, dur \div 2 + 1)}

SliderLists(dur) ==
    UNION {[1 .. n -> ClipChoices(dur)] : n \in 1 .. MaxSliders}

\* this.ffmpeg, its core and the flags once preloadFFmpeg has given up
\* (without the script, without window.FFmpeg, without the core) or has
\* loaded the core.
Engine(win, script, inst, cr, attempts, calls) ==
    [windowFFmpeg |-> win, ffmpegScriptLoaded |-> script, ffmpeg |-> inst, core |-> cr,
     ffmpegLoaded |-> (cr = "loaded"), preloadAttempts |-> attempts, preloadCalls |-> calls]

SettledEngines ==
    {Engine(FALSE, FALSE, "undefined", "null", maxPreloadAttempts, maxPreloadAttempts),
     Engine(FALSE, TRUE, "undefined", "null", maxPreloadAttempts, maxPreloadAttempts),
     Engine(TRUE, TRUE, "created", "null", maxPreloadAttempts, maxPreloadAttempts),
     Engine(TRUE, TRUE, "created", "loaded", 0, 1)}

EngineNow ==
    Engine(windowFFmpeg, ffmpegScriptLoaded, ffmpeg, core, preloadAttempts, preloadCalls)

InitSettled ==
    /\ \E e \in SettledEngines :
          /\ windowFFmpeg = e.windowFFmpeg
          /\ ffmpegScriptLoaded = e.ffmpegScriptLoaded
          /\ ffmpeg = e.ffmpeg
          /\ core = e.core
          /\ ffmpegLoaded = e.ffmpegLoaded
          /\ preloadAttempts = e.preloadAttempts
          /\ preloadCalls = e.preloadCalls
    /\ loader = [preload |-> "idle", trim |-> "idle"]
    /\ preloadTimer = 0

\* The editor with the timeline of a validated file.
InitEditor ==
    /\ content = "editor"
    /\ hidden = FALSE
    /\ videoFile \in allowedTypes
    /\ mediaDuration \in Durations \ {0}
    /\ hiddenVideo = [timer |-> FALSE, corruptionCheckHandled |-> TRUE,
                      duration |-> mediaDuration]
    /\ viewVideo = [NewViewVideo("none") EXCEPT !.duration = mediaDuration]
    /\ sliders \in SliderLists(mediaDuration)
    /\ slidersRendered = TRUE
    /\ addBound = TRUE
    /\ drag = NoDrag
    /\ toast = NoToast
    /\ siteType \in {"normal", "skilltriks"}
    /\ InitLoop
    /\ InitUpload
    /\ InitDuration

\* Trim and the results, preloadFFmpeg having settled.
InitSpec == InitEditor /\ InitSettled

Next ==
    \/ trimVideo
    \/ \E defines \in BOOLEAN : TrimScriptOnload(defines)
    \/ TrimScriptOnerror
    \/ TrimLoadResolved
    \/ TrimLoadRejected
    \/ \E ok \in BOOLEAN : TrimFetchFileDone(ok)
    \/ \E ok \in BOOLEAN, writeOk \in BOOLEAN : ClipFetchDone(ok, writeOk)
    \/ \E outcome \in {"reject", "missing", "empty", "data"},
          cleanup \in {"ok", "failFirst", "failSecond"} : ClipRunDone(outcome, cleanup)
    \/ ViewLoadedMetadata
    \/ \E index \in 1 .. MaxSliders : removeTrimmedVideo(index)
    \/ BackToEdit
    \/ Close

Spec == InitSpec /\ [][Next]_vars

\* The same with the preload of the constructor under way, on a timeline of
\* two clips.
InitSpecPreload ==
    /\ InitEditor
    /\ videoFile = "video/mp4"
    /\ siteType = "normal"
    /\ IsFinite(mediaDuration)
    /\ sliders = <<Slider(0, mediaDuration),
                   Slider(mediaDuration \div 2 - 1, mediaDuration \div 2 + 1)>>
    /\ InitEngine

NextPreload ==
    \/ preloadFFmpeg
    \/ \E defines \in BOOLEAN : PreloadScriptOnload(defines)
    \/ PreloadScriptOnerror
    \/ PreloadLoadResolved
    \/ PreloadLoadRejected
    \/ Next

SpecPreload == InitSpecPreload /\ [][NextPreload]_vars

\* ======================================================= the results table
\* The previews are the <video> elements renderResultsTable has made, one per
\* artifact: "loading", then "metadata" (loadedmetadata has fired), then
\* "canplay", or "error".  Their durations are finite.
\*
\* success, the handler of both onloadedmetadata and oncanplay of preview i,
\* with finalize.
PreviewSuccess(i) ==
    /\ content = "results"
    /\ i \in 1 .. Len(previews)
    /\ previews[i] \in {"loading", "metadata"}
    /\ previews' = [previews EXCEPT ![i] = IF @ = "loading" THEN "metadata" ELSE "canplay"]
    /\ loadedCount' = loadedCount + 1
    /\ addlessons' = IF loadedCount + 1 = Len(previews) /\ ~hasError THEN TRUE
                     ELSE addlessons
    /\ toast' = NoToast
    /\ UNCHANGED <<durationVars, hasError, detached>>
    /\ UNCHANGED <<content, hidden, videoFile, mediaDuration, hiddenVideo, viewVideo,
                   sliders, slidersRendered, addBound, drag, siteType>>
    /\ UNCHANGED <<engVars, loopVars, trimmedVideos, recordVars, sendVars>>

\* vid.onerror of preview i, with finalize.
PreviewError(i) ==
    /\ content = "results"
    /\ i \in 1 .. Len(previews)
    /\ previews[i] = "loading"
    /\ previews' = [previews EXCEPT ![i] = "error"]
    /\ hasError' = TRUE
    /\ addlessons' = FALSE
    /\ loadedCount' = loadedCount + 1
    /\ toast' = NoToast
    /\ UNCHANGED <<durationVars, detached, content, hidden, videoFile, mediaDuration, hiddenVideo, viewVideo,
                   sliders, slidersRendered, addBound, drag, siteType>>
    /\ UNCHANGED <<engVars, loopVars, trimmedVideos, recordVars, sendVars>>

\* success of a preview of the detached table, with finalize: once its
\* loadedCount is totalVideos, #addlessons is written into the footer of
\* whatever is on screen.
DetachedPreviewSuccess ==
    /\ detached.missing > 0
    /\ detached' = [detached EXCEPT !.missing = @ - 1]
    /\ addlessons' = IF detached.missing = 1 THEN TRUE ELSE addlessons
    /\ toast' = NoToast
    /\ UNCHANGED <<durationVars, previews, loadedCount, hasError>>
    /\ UNCHANGED <<content, hidden, videoFile, mediaDuration, hiddenVideo, viewVideo,
                   sliders, slidersRendered, addBound, drag, siteType>>
    /\ UNCHANGED <<engVars, loopVars, trimmedVideos, recordVars, sendVars>>

\* ================================================================== upload
\* setTimeout(() => this.resetTrimmerModal(), 800) of sendVideosToSkillTriks
SkillTriksResetDelay == 800
\* setTimeout(() => this.resetTrimmerModal(), 1000) of sendVideos
BulkResetDelay == 1000

\* A POST: of the media of item (counted from 1), of its lesson, or of the
\* whole batch (item 0), and the files in its FormData.
Request(kind, item, files) == [kind |-> kind, item |-> item, files |-> files]

\* The message of the Error a media response makes uploadNext throw.
MediaError(outcome) ==
    IF outcome = "httpMessage" THEN "BackendMessage"
    ELSE IF outcome = "httpNoMessage" THEN "Failed to upload video."
    ELSE IF outcome = "noId" THEN "No video_id returned from media API."
    ELSE IF outcome = "noTitle" THEN "No title found in media response."
    ELSE "TypeError"

\* The message of the Error a lesson response makes uploadNext throw.
LessonError(outcome) ==
    IF outcome = "httpMessage" THEN "BackendMessage"
    ELSE IF outcome = "httpNoMessage" THEN "Failed to create lesson."
    ELSE "TypeError"

\* The text of the toast of the catch of sendVideosToSkillTriks: the catch
\* takes no argument, the text is a literal.
UploadToastText(msg) == "UploadFailed"

\* A faulty catch of sendVideosToSkillTriks: the toast, but no reset.
UploadRejectedWithoutReset(msg) ==
    /\ toast' = Toast(UploadToastText(msg), 0)
    /\ UNCHANGED <<hidden, trimmedVideos, sliders, videoFile, recordVars>>
    /\ uploadError' = msg
    /\ uploadPc' = "idle"
    /\ uploadIndex' = 0
    /\ uploadCompleted' = 0
    /\ uploadTotal' = 0
    /\ UNCHANGED <<readyEvents, requests, resetTimer>>

\* The catch of sendVideosToSkillTriks, the chain rejected with an Error of
\* message msg; the locals of the call are gone.
UploadRejected(msg) ==
    /\ toast' = Toast(UploadToastText(msg), 0)
    /\ resetTrimmerModal
    /\ uploadError' = msg
    /\ uploadPc' = "idle"
    /\ uploadIndex' = 0
    /\ uploadCompleted' = 0
    /\ uploadTotal' = 0
    /\ UNCHANGED <<readyEvents, requests, resetTimer>>

\* A faulty report, counting the item under way.
ProgressedWithDispatched(cmp, tot) == Report(cmp + 1, tot, Percentage(cmp + 1, tot))

\* The report of #submit-progress-bar and #submit-progress-text.
Progressed(cmp, tot) == Report(cmp, tot, Percentage(cmp, tot))

\* uploadNext(index), completed being cmp, total tot and
\* this.lessonResponseData data: all uploads done, or the TypeError of
\* video.type on a list that has lost its item, or the POST of the media of
\* the item.
uploadNext(index, cmp, tot, data) ==
    IF index >= tot
    THEN /\ uploadProgress' = Report(cmp, tot, 100)
         /\ lessonResponseSend' = TRUE
         /\ readyEvents' = readyEvents + 1
         /\ lessonResponseData' = data
         /\ toast' = Toast("LessonsCreated", cmp)
         /\ resetTimer' = SkillTriksResetDelay
         /\ uploadPc' = "idle"
         /\ uploadIndex' = 0
         /\ uploadCompleted' = 0
         /\ uploadTotal' = 0
         /\ UNCHANGED <<hidden, trimmedVideos, sliders, videoFile, requests, uploadError>>
    ELSE IF index + 1 > Len(trimmedVideos)
    THEN /\ UploadRejected("TypeError")
         /\ uploadProgress' = Progressed(cmp, tot)
    ELSE /\ requests' = Append(requests,
                               Request("media", index + 1, <<trimmedVideos[index + 1].file>>))
         /\ uploadPc' = "media"
         /\ uploadIndex' = index
         /\ uploadCompleted' = cmp
         /\ uploadTotal' = tot
         /\ uploadProgress' = Progressed(cmp, tot)
         /\ lessonResponseData' = data
         /\ toast' = NoToast
         /\ UNCHANGED <<hidden, trimmedVideos, sliders, videoFile, lessonResponseSend,
                        readyEvents, uploadError, resetTimer>>

\* A faulty sendVideos, posting the first artifact only.
sendFirstVideo ==
    /\ requests' = Append(requests, Request("bulk", 0, <<trimmedVideos[1].file>>))
    /\ uploadPc' = "bulk"
    /\ toast' = NoToast
    /\ UNCHANGED <<hidden, trimmedVideos, sliders, videoFile, recordVars, readyEvents,
                   uploadIndex, uploadCompleted, uploadTotal, uploadError, uploadProgress,
                   resetTimer>>

\* sendVideos up to its fetch: one POST with every artifact.
sendVideos ==
    /\ requests' = Append(requests,
          Request("bulk", 0, [k \in 1 .. Len(trimmedVideos) |-> trimmedVideos[k].file]))
    /\ uploadPc' = "bulk"
    /\ toast' = NoToast
    /\ UNCHANGED <<hidden, trimmedVideos, sliders, videoFile, recordVars, readyEvents,
                   uploadIndex, uploadCompleted, uploadTotal, uploadError, uploadProgress, resetTimer>>

\* click on #addlessons (Submit): the loader, then sendVideosToSkillTriks or
\* sendVideos up to the first fetch.
Submit ==
    /\ ~hidden
    /\ addlessons
    /\ uploadPc = "idle"
    /\ IF hasError
       THEN /\ toast' = NoToast
            /\ UNCHANGED <<content, hidden, trimmedVideos, sliders, videoFile, uploadVars>>
       ELSE /\ content' = "uploader"
            /\ NoResultsTable
            /\ IF siteType = "skilltriks"
               THEN uploadNext(0, 0, Len(trimmedVideos), lessonResponseData)
               ELSE sendVideos
            /\ UNCHANGED committed
    /\ UNCHANGED <<durationVars, mediaDuration, hiddenVideo, viewVideo, slidersRendered, addBound, drag,
                   siteType>>
    /\ UNCHANGED <<engVars, loopVars>>

\* What the responses of the upload leave alone.
uploadFrame ==
    <<content, mediaDuration, hiddenVideo, viewVideo, slidersRendered, addBound, drag,
      siteType, engVars, loopVars, tableVars>>

\* A faulty test of the media response, looking at the status only.
MediaAcceptedByStatus(outcome) == outcome \in {"ok", "noId", "noTitle"}

\* res.ok, a videoId and a title: the lesson is posted.
MediaAccepted(outcome) == outcome = "ok"

\* A faulty test of the lesson response, going on whatever the status.
LessonAcceptedAlways(outcome) == TRUE

\* res.ok of the lesson response.
LessonAccepted(outcome) == outcome = "ok"

\* The fetch of the media of an item settles: a success status with an id
\* and a title ("ok"), without an id ("noId"), without a title ("noTitle"), a
\* failure status with or without a message ("httpMessage",
\* "httpNoMessage"), or no response that is JSON ("throw").
MediaDone(outcome) ==
    /\ uploadPc = "media"
    /\ committed' = IF outcome \in {"ok", "noId", "noTitle"}
                    THEN committed \cup {<<"media", uploadIndex + 1>>}
                    ELSE committed
    /\ IF MediaAccepted(outcome)
       THEN /\ requests' = Append(requests, Request("lesson", uploadIndex + 1, <<>>))
            /\ uploadPc' = "lesson"
            /\ toast' = NoToast
            /\ UNCHANGED <<hidden, trimmedVideos, sliders, videoFile, recordVars,
                           readyEvents, uploadIndex, uploadCompleted, uploadTotal, uploadError,
                           resetTimer>>
       ELSE UploadRejected(MediaError(outcome))
    /\ UNCHANGED <<durationVars, uploadProgress>>
    /\ UNCHANGED uploadFrame

\* The fetch of the lesson of an item settles: the record is pushed and
\* uploadNext goes on, or the chain is rejected.
LessonDone(outcome) ==
    /\ uploadPc = "lesson"
    /\ IF LessonAccepted(outcome)
       THEN /\ committed' = IF outcome = "ok"
                            THEN committed \cup {<<"lesson", uploadIndex + 1>>}
                            ELSE committed
            /\ uploadNext(uploadIndex + 1, uploadCompleted + 1, uploadTotal,
                          Append(lessonResponseData, uploadIndex + 1))
       ELSE /\ UploadRejected(LessonError(outcome))
            /\ UNCHANGED <<committed, uploadProgress>>
    /\ UNCHANGED <<durationVars, uploadFrame>>

\* The fetch of sendVideos settles: the success toast and the delayed reset,
\* or the catch.
BulkDone(outcome) ==
    /\ uploadPc = "bulk"
    /\ uploadPc' = "idle"
    /\ IF outcome = "ok"
       THEN /\ committed' = committed \cup {<<"bulk", 0>>}
            /\ toast' = Toast("VideosUploaded", 0)
            /\ resetTimer' = BulkResetDelay
            /\ UNCHANGED <<hidden, trimmedVideos, sliders, videoFile, recordVars,
                           uploadError>>
       ELSE /\ toast' = Toast("BulkUploadFailed", 0)
            /\ resetTrimmerModal
            /\ uploadError' = IF outcome = "httpError" THEN "Upload failed" ELSE "TypeError"
            /\ UNCHANGED <<committed, resetTimer>>
    /\ UNCHANGED <<durationVars, readyEvents, uploadIndex, uploadCompleted, uploadTotal, requests, uploadProgress>>
    /\ UNCHANGED uploadFrame

\* The timer of the delayed reset fires.
ResetTimerFired ==
    /\ resetTimer # 0
    /\ resetTimer' = 0
    /\ resetTrimmerModal
    /\ toast' = NoToast
    /\ UNCHANGED <<durationVars, readyEvents, uploadPc, uploadIndex, uploadCompleted, uploadTotal, requests,
                   committed, uploadError, uploadProgress>>
    /\ UNCHANGED uploadFrame

\* ----------------------------------------------------------- specification
MediaOutcomes == {"ok", "noId", "noTitle", "httpMessage", "httpNoMessage", "throw"}
LessonOutcomes == {"ok", "httpMessage", "httpNoMessage", "throw"}
BulkOutcomes == {"ok", "httpError", "throw"}

\* The editor with the timeline of a validated MP4 file, every clip the full
\* span or a clip inside one second, the FFmpeg core loaded by preloadFFmpeg.
InitSpecUpload ==
    /\ InitEditor
    /\ videoFile = "video/mp4"
    /\ IsFinite(mediaDuration)
    /\ \A k \in 1 .. Len(sliders) :
          sliders[k] \in {Slider(0, mediaDuration),
                          Slider(mediaDuration \div 2, mediaDuration \div 2 + 1)}
    /\ windowFFmpeg = TRUE
    /\ ffmpegScriptLoaded = TRUE
    /\ ffmpeg = "created"
    /\ core = "loaded"
    /\ ffmpegLoaded = TRUE
    /\ preloadAttempts = 0
    /\ preloadCalls = 1
    /\ loader = [preload |-> "idle", trim |-> "idle"]
    /\ preloadTimer = 0

\* Trim, the results table and the upload.
NextUpload ==
    \/ trimVideo
    \/ \E ok \in BOOLEAN : TrimFetchFileDone(ok)
    \/ \E ok \in BOOLEAN, writeOk \in BOOLEAN : ClipFetchDone(ok, writeOk)
    \/ \E outcome \in {"reject", "missing", "empty", "data"},
          cleanup \in {"ok", "failFirst", "failSecond"} : ClipRunDone(outcome, cleanup)
    \/ ViewLoadedMetadata
    \/ \E index \in 1 .. MaxSliders : removeTrimmedVideo(index)
    \/ BackToEdit
    \/ \E i \in 1 .. MaxSliders : PreviewSuccess(i)
    \/ \E i \in 1 .. MaxSliders : PreviewError(i)
    \/ Submit
    \/ \E outcome \in MediaOutcomes : MediaDone(outcome)
    \/ \E outcome \in LessonOutcomes : LessonDone(outcome)
    \/ \E outcome \in BulkOutcomes : BulkDone(outcome)
    \/ ResetTimerFired
    \/ Close

SpecUpload == InitSpecUpload /\ [][NextUpload]_vars
\* ======================================== calculateLessonTimeDuration
\* A time string is the sequence of its colon-separated fields, a field the
\* sequence of its characters: "01:30" is << <<"0", "1">>, <<"3", "0">> >>.
MaxFields == 4

Digits == <<"0", "1", "2", "3", "4", "5", "6", "7", "8", "9">>

IsDigit(c) == \E d \in 1 .. 10 : Digits[d] = c

DigitValue(c) == (CHOOSE d \in 1 .. 10 : Digits[d] = c) - 1

RECURSIVE DecimalValue(_)
DecimalValue(field) ==
    IF field = <<>> THEN 0
    ELSE 10 * DecimalValue(SubSeq(field, 1, Len(field) - 1)) + DigitValue(field[Len(field)])

\* Number(field) of an unsigned field without a fraction: 0 for the empty
\* string, the decimal value of a string of digits, NaN for anything else.
NumberOf(field) ==
    IF field = <<>> THEN 0
    ELSE IF \A k \in 1 .. Len(field) : IsDigit(field[k]) THEN DecimalValue(field)
    ELSE NaN

FMul(a, b) == IF IsNaN(a) \/ IsNaN(b) THEN NaN ELSE a * b

\* Math.floor(a / b) and Math.ceil(a / b) of a finite a >= 0 or of NaN.
FFloorDiv(a, b) == IF IsNaN(a) THEN NaN ELSE a \div b
FCeilDiv(a, b) == IF IsNaN(a) THEN NaN ELSE (a + b - 1) \div b

\* timeString.split(':').map(Number)
Parts(str) == [k \in 1 .. Len(str) |-> NumberOf(str[k])]

\* A faulty classification: the minutes are rounded down.
MinutesRoundedDown(totalSeconds) ==
    IF FGe(totalSeconds, 3600)
    THEN [duration |-> FFloorDiv(totalSeconds, 3600), duration_type |-> "hour"]
    ELSE [duration |-> FFloorDiv(totalSeconds, 60), duration_type |-> "minute"]

\* The two returns after totalSeconds is known.
Classified(totalSeconds) ==
    IF FGe(totalSeconds, 3600)
    THEN [duration |-> FFloorDiv(totalSeconds, 3600), duration_type |-> "hour"]
    ELSE [duration |-> FCeilDiv(totalSeconds, 60), duration_type |-> "minute"]

calculateLessonTimeDuration(str) ==
    LET parts == Parts(str)
    IN  IF Len(parts) = 2
        THEN Classified(FAdd(FMul(parts[1], 60), parts[2]))
        ELSE IF Len(parts) = 3
        THEN Classified(FAdd(FAdd(FMul(parts[1], 3600), FMul(parts[2], 60)), parts[3]))
        ELSE [duration |-> 0, duration_type |-> "minute"]

\* One call of calculateLessonTimeDuration(timeString).
CallCalculateLessonTimeDuration ==
    /\ lessonTime = NoLessonTime
    /\ timeString # <<>>
    /\ lessonTime' = calculateLessonTimeDuration(timeString)
    /\ toast' = NoToast
    /\ UNCHANGED <<clipSeconds, timeString, content, hidden, videoFile, mediaDuration, hiddenVideo,
                   viewVideo, sliders, slidersRendered, addBound, drag, siteType, engVars,
                   loopVars, trimmedVideos, uploadVars>>

\* The fields the time strings are made of: "", "00", "01", "1", "30", "59",
\* "90", and two that are not numbers, "x" and "1x".
SampleFields ==
    {<<>>, <<"0", "0">>, <<"0", "1">>, <<"1">>, <<"3", "0">>, <<"5", "9">>, <<"9", "0">>,
     <<"x">>, <<"1", "x">>}

TimeStrings == UNION {[1 .. n -> SampleFields] : n \in 1 .. MaxFields}

\* calculateLessonTimeDuration on any string of at most MaxFields fields.
InitSpecDuration ==
    /\ InitTimeline
    /\ siteType = "skilltriks"
    /\ InitEngine /\ ~windowFFmpeg
    /\ InitLoop
    /\ InitUpload
    /\ clipSeconds = 0
    /\ timeString \in TimeStrings
    /\ lessonTime = NoLessonTime

NextDuration == CallCalculateLessonTimeDuration

SpecDuration == InitSpecDuration /\ [][NextDuration]_vars


\* ------------------------------------------------------- convertToHHMMSS
\* The decimal digits of a natural number, as `${n}` writes them.
RECURSIVE ToDigits(_)
ToDigits(n) ==
    IF n < 10 THEN <<Digits[n + 1]>>
    ELSE Append(ToDigits(n \div 10), Digits[(n % 10) + 1])

\* if (n < 10) n = '0' + n
Padded(n) == IF n < 10 THEN <<"0">> \o ToDigits(n) ELSE ToDigits(n)

\* A faulty format, without the hours.
convertToMMSS(val) ==
    <<Padded((val % 3600) \div 60), Padded(val % 60)>>

\* convertToHHMMSS of a whole number of seconds val >= 0 (Math.round and
\* Number leave it as it is): the fields of the string it returns.
convertToHHMMSS(val) ==
    LET hours == Padded(val \div 3600)
        minutes == Padded((val % 3600) \div 60)
        seconds == Padded(val % 60)
    IN  IF hours = <<"0", "0">> THEN <<minutes, seconds>>
        ELSE <<hours, minutes, seconds>>

\* One call of convertToHHMMSS(clipSeconds); the string is kept as the
\* duration of the artifact, which sendVideosToSkillTriks passes on to
\* calculateLessonTimeDuration.
CallConvertToHHMMSS ==
    /\ timeString = <<>>
    /\ timeString' = convertToHHMMSS(clipSeconds)
    /\ toast' = NoToast
    /\ UNCHANGED <<clipSeconds, lessonTime, content, hidden, videoFile, mediaDuration,
                   hiddenVideo, viewVideo, sliders, slidersRendered, addBound, drag,
                   siteType, engVars, loopVars, trimmedVideos, uploadVars>>

\* The lengths of the clips: 0, 1, 9, 10, 59 seconds and minutes, and 0, 1,
\* 9, 10, 100 hours.
ClipSeconds ==
    {h * 3600 + m * 60 + s : h \in {0, 1, 9, 10, 100}, m \in {0, 1, 9, 10, 59},
                              s \in {0, 1, 9, 10, 59}}

\* The duration of an artifact formatted, then classified.
InitSpecRoundTrip ==
    /\ InitTimeline
    /\ siteType = "skilltriks"
    /\ InitEngine /\ ~windowFFmpeg
    /\ InitLoop
    /\ InitUpload
    /\ clipSeconds \in ClipSeconds
    /\ timeString = <<>>
    /\ lessonTime = NoLessonTime

NextRoundTrip ==
    \/ CallConvertToHHMMSS
    \/ CallCalculateLessonTimeDuration

SpecRoundTrip == InitSpecRoundTrip /\ [][NextRoundTrip]_vars
\* ======================================================== the whole pipeline
\* What the browser can find in an uploaded file: nothing it can decode, no
\* length, less than a second, the full length, no finite length.
PipelineDurations == {NaN, 0, 1, DurationSeconds * TicksPerSecond, PosInf}

\* The clips of a timeline of the whole pipeline.
MaxClips == 2

\* From the constructor to the reset, the engine loaded on demand, the
\* boundaries where addNewSlider and removeSlider leave them.
InitSpecPipeline ==
    /\ InitTimeline
    /\ siteType \in {"normal", "skilltriks"}
    /\ InitEngine
    /\ InitLoop
    /\ InitUploadOf(TRUE)
    /\ InitDuration

NextPipeline ==
    \/ \E type \in FileTypes, size \in FileSizes, dur \in PipelineDurations :
          AddFile(type, size, dur)
    \/ HiddenMetadataKnown
    \/ CorruptionTimeout
    \/ HiddenVideoError
    \/ HiddenLoadedMetadata
    \/ videoDetails
    \/ Len(sliders) < MaxClips /\ addNewSlider
    \/ \E index \in 1 .. MaxSliders : removeSlider(index)
    \/ trimVideo
    \/ \E defines \in BOOLEAN : TrimScriptOnload(defines)
    \/ TrimScriptOnerror
    \/ TrimLoadResolved
    \/ TrimLoadRejected
    \/ \E ok \in BOOLEAN : TrimFetchFileDone(ok)
    \/ \E ok \in BOOLEAN, writeOk \in BOOLEAN : ClipFetchDone(ok, writeOk)
    \/ \E outcome \in {"reject", "missing", "empty", "data"},
          cleanup \in {"ok", "failFirst", "failSecond"} : ClipRunDone(outcome, cleanup)
    \/ ViewLoadedMetadata
    \/ \E index \in 1 .. MaxSliders : removeTrimmedVideo(index)
    \/ BackToEdit
    \/ \E i \in 1 .. MaxSliders : PreviewSuccess(i)
    \/ \E i \in 1 .. MaxSliders : PreviewError(i)
    \/ DetachedPreviewSuccess
    \/ trimPc = "idle" /\ Submit
    \/ \E outcome \in MediaOutcomes : MediaDone(outcome)
    \/ \E outcome \in LessonOutcomes : LessonDone(outcome)
    \/ \E outcome \in BulkOutcomes : BulkDone(outcome)
    \/ ResetTimerFired
    \/ Close

SpecPipeline == InitSpecPipeline /\ [][NextPipeline]_vars

\* ================================================= the preview of a clip
\* The clicks on start grabbers whose listeners are followed.
MaxWatches == 2

\* click on the start grabber of slider sliderIndex: the video plays from the
\* start of the slider, and a new checkEndTime listens to its timeupdate.
GrabberClick(sliderIndex) ==
    /\ content = "editor" /\ ~hidden /\ ~drag.active
    /\ slidersRendered
    /\ sliderIndex \in 1 .. Len(sliders)
    /\ Len(viewVideo.watches) < MaxWatches
    /\ viewVideo' = [viewVideo EXCEPT !.currentTime = sliders[sliderIndex].startTime,
                                      !.paused = FALSE,
                                      !.watches = Append(@, sliderIndex)]
    /\ toast' = NoToast
    /\ UNCHANGED <<content, hidden, videoFile, mediaDuration, hiddenVideo, sliders,
                   slidersRendered, addBound, drag>>
    /\ UNCHANGED pipelineVars

\* The checkEndTime listeners of pending run in the order they were added on
\* video v: one whose slider has ended pauses, rewinds and removes itself; one
\* whose slider is gone throws and stays.
RECURSIVE RunWatches(_, _)
RunWatches(v, pending) ==
    IF pending = <<>> THEN v
    ELSE LET i == Head(pending)
             w == IF i <= Len(sliders) /\ FGe(v.currentTime, sliders[i].endTime)
                  THEN [v EXCEPT !.paused = TRUE,
                                 !.currentTime = sliders[i].startTime]
                  ELSE [v EXCEPT !.watches = Append(@, i)]
         IN  RunWatches(w, Tail(pending))

\* timeupdate of the video at time t: playback went on to t, or a seek ended.
TimeUpdate(t) ==
    /\ content = "editor"
    /\ \/ t = viewVideo.currentTime
       \/ ~viewVideo.paused /\ FGt(t, viewVideo.currentTime) /\ FGe(viewVideo.duration, t)
    /\ viewVideo' = RunWatches([viewVideo EXCEPT !.currentTime = t, !.watches = <<>>],
                               viewVideo.watches)
    /\ toast' = NoToast
    /\ UNCHANGED <<content, hidden, videoFile, mediaDuration, hiddenVideo, sliders,
                   slidersRendered, addBound, drag>>
    /\ UNCHANGED pipelineVars

\* The times a timeupdate is seen at: the ends of the sliders and of the video.
PlaybackTimes ==
    {sliders[k].endTime : k \in 1 .. Len(sliders)}
        \cup {viewVideo.duration, viewVideo.currentTime}

\* The editor with the full span and one more clip, the engine loaded.
InitSpecPreview ==
    /\ InitEditor
    /\ videoFile = "video/mp4"
    /\ siteType = "normal"
    /\ mediaDuration = DurationSeconds * TicksPerSecond
    /\ Len(sliders) = 2
    /\ sliders[1] = Slider(0, mediaDuration)
    /\ windowFFmpeg = TRUE
    /\ ffmpegScriptLoaded = TRUE
    /\ ffmpeg = "created"
    /\ core = "loaded"
    /\ ffmpegLoaded = TRUE
    /\ preloadAttempts = 0
    /\ preloadCalls = 1
    /\ loader = [preload |-> "idle", trim |-> "idle"]
    /\ preloadTimer = 0

NextPreview ==
    \/ \E sliderIndex \in 1 .. MaxSliders : GrabberClick(sliderIndex)
    \/ \E t \in PlaybackTimes : TimeUpdate(t)
    \/ \E sliderIndex \in 1 .. MaxSliders, isStartGrabber \in BOOLEAN :
          MouseDown(sliderIndex, isStartGrabber)
    \/ \E offsetX \in Offsets : handleMouseMove(offsetX)
    \/ MouseUp
    \/ \E index \in 1 .. MaxSliders : removeSlider(index)
    \/ Close

SpecPreview == InitSpecPreview /\ [][NextPreview]_vars


\* ============================================================== properties
FLe(a, b) == ~IsNaN(a) /\ ~IsNaN(b) /\ a <= b

\* n seconds on the grid.
Seconds(n) == n * TicksPerSecond

\* a is x cut down to whole seconds.
IsTruncationOf(a, x) ==
    IF IsFinite(x)
    THEN a \in Int /\ a * TicksPerSecond <= x /\ x < (a + 1) * TicksPerSecond
    ELSE IsNaN(a)

\* The range r is empty once its ends are cut down to whole seconds.
TruncatedEmpty(r) ==
    /\ IsFinite(r.startTime) /\ IsFinite(r.endTime)
    /\ r.startTime \div TicksPerSecond >= r.endTime \div TicksPerSecond

\* n is [mid - 0.25 * len, mid + 0.25 * len] of the range r.
IsQuarterSplit(n, r) ==
    IF IsFinite(r.startTime) /\ IsFinite(r.endTime)
    THEN /\ 4 * n.startTime = 3 * r.startTime + r.endTime
         /\ 4 * n.endTime = r.startTime + 3 * r.endTime
    ELSE LET mid == FHalf(FAdd(r.startTime, r.endTime))
             len == FSub(r.endTime, r.startTime)
         IN  n = Slider(FSub(mid, FQuarter(len)), FAdd(mid, FQuarter(len)))

\* C1: every range of the timeline satisfies
\* 0 <= startTime < endTime <= mediaDuration in every reachable state.
\* It does not hold: a file whose duration is 0 or Infinity gets a timeline.
RangesWithinMedia ==
    \A k \in 1 .. Len(sliders) :
        /\ FLe(0, sliders[k].startTime)
        /\ FLt(sliders[k].startTime, sliders[k].endTime)
        /\ FLe(sliders[k].endTime, mediaDuration)

\* C2: addNewSlider on a non-empty timeline takes a range no other range is
\* longer than and no earlier range is as long as, appends exactly one range
\* [mid - 0.25 * len, mid + 0.25 * len] of it and leaves every range that was
\* there where and as it was; on an empty timeline it changes nothing.
AddBySplitAppendsQuarterSplit ==
    [][/\ AddBySplit(<<>>) = <<>>
       /\ (addNewSlider /\ Len(sliders) = 0) => sliders' = sliders
       /\ (addNewSlider /\ Len(sliders) > 0) =>
             \E j \in 1 .. Len(sliders) :
                /\ \A k \in 1 .. Len(sliders) :
                      ~FGt(SliderLength(sliders[k]), SliderLength(sliders[j]))
                /\ \A k \in 1 .. (j - 1) :
                      ~FGe(SliderLength(sliders[k]), SliderLength(sliders[j]))
                /\ Len(sliders') = Len(sliders) + 1
                /\ SubSeq(sliders', 1, Len(sliders)) = sliders
                /\ IsQuarterSplit(sliders'[Len(sliders')], sliders[j])]_vars

\* A third range split off the first of two ranges of the same length.
SplitAfterTie ==
    /\ Len(sliders) = 3
    /\ sliders[1] # sliders[2]
    /\ IsFinite(SliderLength(sliders[1]))
    /\ SliderLength(sliders[1]) = SliderLength(sliders[2])
    /\ IsQuarterSplit(sliders[3], sliders[1])
    /\ ~IsQuarterSplit(sliders[3], sliders[2])

\* C3, as the code has it: addNewSlider on the timeline {[0, 100]} appends
\* the range [25, 75] and leaves [0, 100] unchanged.
SplitOfHundred ==
    [][(sliders = <<Slider(0, Seconds(100))>> /\ addNewSlider) =>
          sliders' = <<Slider(0, Seconds(100)), Slider(Seconds(25), Seconds(75))>>]_vars

\* C3, as the specification has it: the appended range is [37.5, 62.5].
SplitOfHundredAsSpecified ==
    [][(sliders = <<Slider(0, Seconds(100))>> /\ addNewSlider) =>
          sliders' = <<Slider(0, Seconds(100)),
                       Slider(Seconds(75) \div 2, Seconds(125) \div 2)>>]_vars

HundredSplit ==
    sliders = <<Slider(0, Seconds(100)), Slider(Seconds(25), Seconds(75))>>

\* The proposal clamped to [0, mediaDuration].
Clamp(t, dur) == FMax(0, FMin(t, dur))

\* C4: a mouse-move on the start grabber proposing a time >= the range's
\* endTime, or on the end grabber proposing a time <= its startTime, changes
\* no range; an accepted proposal sets the dragged edge of the dragged range
\* to the proposal clamped to [0, mediaDuration] and changes nothing else.
SetBoundaryRespectsRange ==
    [][\A offsetX \in Offsets : handleMouseMove(offsetX) =>
          LET t == NewTime(offsetX, viewVideo.duration)
              i == drag.index
              r == sliders[i]
              r2 == sliders'[i]
          IN  /\ Len(sliders') = Len(sliders)
              /\ \A k \in (1 .. Len(sliders)) \ {i} : sliders'[k] = sliders[k]
              /\ IF drag.isStartGrabber
                 THEN /\ r2.endTime = r.endTime
                      /\ FGe(t, r.endTime) => r2 = r
                      /\ FLt(t, r.endTime) =>
                            /\ r2.startTime = Clamp(t, mediaDuration)
                            /\ FLe(0, r2.startTime) /\ FLe(r2.startTime, mediaDuration)
                 ELSE /\ r2.startTime = r.startTime
                      /\ FLe(t, r.startTime) => r2 = r
                      /\ FGt(t, r.startTime) =>
                            /\ r2.endTime = Clamp(t, mediaDuration)
                            /\ FLe(0, r2.endTime) /\ FLe(r2.endTime, mediaDuration)]_vars

\* The end of the second range dragged to or past the end of the track.
EndDraggedToDuration ==
    /\ drag.active /\ ~drag.isStartGrabber /\ drag.index = 2
    /\ IsFinite(mediaDuration)
    /\ Len(sliders) >= 2
    /\ sliders[1] = Slider(0, mediaDuration)
    /\ sliders[2] = Slider(mediaDuration \div 4, mediaDuration)

\* C5: removing at an index past the end leaves the sequence as it is;
\* removing at a valid index yields the sequence without that element, the
\* others in their order.
RemoveDropsExactlyOne ==
    [][/\ \A index \in (Len(sliders) + 1) .. (MaxSliders + 2) :
             RemoveAt(sliders, index) = sliders
       /\ \A index \in 1 .. MaxSliders : removeSlider(index) =>
             /\ Len(sliders') = Len(sliders) - 1
             /\ \A k \in 1 .. Len(sliders') :
                   sliders'[k] = IF k < index THEN sliders[k] ELSE sliders[k + 1]]_vars

\* The full span removed, the range split off it left alone.
FirstRangeRemoved ==
    /\ IsFinite(mediaDuration)
    /\ sliders = <<Slider(mediaDuration \div 4, 3 * (mediaDuration \div 4))>>
    /\ content = "editor" /\ ~hidden

\* C6: a timeline is made, and the editor entered, only for media of a
\* finite duration greater than 0, and the timeline made is the one range
\* [0, mediaDuration].  It does not hold: onloadedmetadata and videoDetails
\* take any duration.
InitializeRejectsInvalidMedia ==
    /\ (content = "editor" \/ sliders # <<>>) =>
          IsFinite(mediaDuration) /\ mediaDuration > 0
    /\ (viewVideo.onloadedmetadata = "videoDetails") => sliders = <<>>

\* C7: trimVideo cuts both ends of every range down to whole seconds; a
\* batch with a range that is empty after that is rejected with an
\* InvalidClip toast naming such a clip, before any writeFile or run, with
\* no artifact, the ranges as they were and the editor back.
InvalidClipRejectsBatch ==
    /\ toast.text = "InvalidClip" =>
          /\ content = "editor" /\ trimPc = "idle"
          /\ trimmedVideos = <<>> /\ commands = <<>>
          /\ sliders = slidersAtTrim
          /\ toast.clip \in 1 .. Len(sliders)
          /\ TruncatedEmpty(sliders[toast.clip])
    /\ trimPc \in {"clipFetch", "clipRun"} =>
          /\ Len(accurateSliders) = Len(slidersAtTrim)
          /\ \A k \in 1 .. Len(slidersAtTrim) :
                /\ IsTruncationOf(accurateSliders[k].startTime, slidersAtTrim[k].startTime)
                /\ IsTruncationOf(accurateSliders[k].endTime, slidersAtTrim[k].endTime)
                /\ ~TruncatedEmpty(slidersAtTrim[k])
    /\ commands # <<>> =>
          \A k \in 1 .. Len(slidersAtTrim) : ~TruncatedEmpty(slidersAtTrim[k])

\* A batch of three rejected for its second clip.
SecondClipRejected ==
    /\ toast = Toast("InvalidClip", 2)
    /\ Len(sliders) = 3
    /\ ~TruncatedEmpty(sliders[1])

\* The toasts of a clip that failed to be written, trimmed or read, or came
\* out empty.
ClipFailures == {"PrepareFailed", "TrimFailed", "ReadFailed", "EmptyOutput"}

\* C8: when clip i fails, nothing of trimVideo is left pending, no command
\* was issued for a later clip nor twice for clip i, the artifact list is
\* empty, the ranges are as they were and the editor is back.
ClipFailureAbortsBatch ==
    [][toast'.text \in ClipFailures =>
          /\ toast'.clip = clipIndex + 1
          /\ trimPc' = "idle" /\ loader'.trim = "idle"
          /\ content' = "editor"
          /\ trimmedVideos' = <<>>
          /\ sliders' = sliders
          /\ \A c \in 1 .. Len(commands') : commands'[c][2] <= toast'.clip
          /\ \A c, d \in 1 .. Len(commands') : commands'[c] = commands'[d] => c = d]_vars

\* The second of three clips failed after the first had given its artifact.
SecondClipFailed ==
    /\ toast = Toast("TrimFailed", 2)
    /\ ~hidden
    /\ Len(sliders) = 3
    /\ trimmedVideos = <<>>
    /\ content = "editor"
    /\ \E c \in 1 .. Len(commands) : commands[c] = <<"unlink", 1>>

\* C9: when the results table is entered, the artifacts are one per range of
\* the timeline as it was when Trim was clicked, artifact k cut from range k.
ResultsMatchRanges ==
    [][(content' = "results" /\ content # "results") =>
          /\ Len(trimmedVideos') = Len(slidersAtTrim)
          /\ \A k \in 1 .. Len(slidersAtTrim) :
                /\ trimmedVideos'[k].file = <<"video", k>>
                /\ IsTruncationOf(trimmedVideos'[k].clip.startTime,
                                  slidersAtTrim[k].startTime)
                /\ IsTruncationOf(trimmedVideos'[k].clip.endTime,
                                  slidersAtTrim[k].endTime)]_vars

\* The results of three ranges, the first two different.
ResultsOfThree ==
    /\ content = "results" /\ ~hidden
    /\ Len(trimmedVideos) = 3
    /\ sliders = slidersAtTrim
    /\ sliders[1] # sliders[2]
    /\ trimmedVideos[1].clip # trimmedVideos[2].clip

\* C10: preloadFFmpeg runs at most maxPreloadAttempts times; once the last
\* run has failed no retry is scheduled and none is pending; a failed run
\* changes neither the screen nor the trim under way and shows no toast.
PreloadGivesUp ==
    [][/\ preloadCalls' <= maxPreloadAttempts
       /\ preloadAttempts' <= maxPreloadAttempts
       /\ preloadAttempts' = maxPreloadAttempts =>
             preloadTimer' = 0 /\ loader'.preload = "idle"
       /\ preloadAttempts' # preloadAttempts =>
             /\ preloadAttempts' = preloadAttempts + 1
             /\ content' = content /\ hidden' = hidden
             /\ trimPc' = trimPc
             /\ toast' = NoToast]_vars

\* The third run of preloadFFmpeg has failed.
PreloadGaveUp ==
    /\ preloadAttempts = maxPreloadAttempts
    /\ preloadCalls = maxPreloadAttempts
    /\ ~ffmpegLoaded

\* C11: when the loadFFmpeg call of trimVideo fails, the error screen with
\* the retry button is shown with a toast, nothing of trimVideo is left
\* pending, no command was issued to FFmpeg and no artifact made; the call
\* asks for the script at most once and for the core at most once; and a
\* further call on this path is made by a click (trimVideo) only, never by
\* the retry timer of preloadFFmpeg.
EngineFailureAwaitsRetry ==
    [][/\ toast'.text = "EngineUnavailable" =>
             /\ content' = "engineError"
             /\ trimPc' = "idle" /\ loader'.trim = "idle"
             /\ commands' = <<>> /\ fs' = fs
             /\ trimmedVideos' = trimmedVideos
             /\ sliders' = sliders
             /\ (loader.trim = "idle" => trimVideo)
       /\ (loader.trim = "idle" /\ loader'.trim # "idle") => trimVideo
       /\ (trimPc = "idle" /\ trimPc' # "idle") => trimVideo
       /\ loader.trim = "script" => loader'.trim \in {"script", "load", "idle"}
       /\ loader.trim = "load" => loader'.trim \in {"load", "idle"}
       /\ (content = "engineError" /\ content' # "engineError") => trimVideo]_vars

\* The error screen after the script had loaded without defining
\* window.FFmpeg, preloadFFmpeg having given up before.
EngineErrorShown ==
    /\ toast = Toast("EngineUnavailable", 0)
    /\ content = "engineError" /\ ~hidden
    /\ trimPc = "idle" /\ loader.trim = "idle"
    /\ ffmpegScriptLoaded /\ ~windowFFmpeg
    /\ preloadAttempts = maxPreloadAttempts
    /\ commands = <<>>

\* The files of the artifacts, in their order.
Files(videos) == [k \in 1 .. Len(videos) |-> videos[k].file]

\* Everything resetTrimmerModal clears is cleared and the modal is hidden.
Cleared ==
    /\ hidden
    /\ trimmedVideos = <<>> /\ sliders = <<>> /\ videoFile = "null"
    /\ lessonResponseData = <<>> /\ ~lessonResponseSend

\* C12: on a site that is not skilltriks a Submit issues one POST with the
\* files of all artifacts and no other POST is ever issued; when that POST
\* is answered with a failure status or not at all, nothing is recorded as
\* committed, no lessonResponseReady event is dispatched, no delayed reset is
\* set and resetTrimmerModal has run.
BulkPostsOnceAndResetsOnFailure ==
    [][/\ (Submit /\ siteType # "skilltriks") =>
             requests' = <<Request("bulk", 0, Files(trimmedVideos))>>
       /\ (siteType # "skilltriks" /\ requests # <<>>) => requests' = requests
       /\ toast'.text = "BulkUploadFailed" =>
             /\ Cleared'
             /\ committed' = {}
             /\ readyEvents' = 0
             /\ resetTimer' = 0
             /\ uploadPc' = "idle"
       /\ \A outcome \in BulkOutcomes \ {"ok"} :
             BulkDone(outcome) => toast'.text = "BulkUploadFailed"]_vars

\* The POST of three artifacts has failed.
BulkOfThreeFailed ==
    /\ toast = Toast("BulkUploadFailed", 0)
    /\ Len(requests) = 1
    /\ Len(requests[1].files) = 3
    /\ uploadError = "Upload failed"
    /\ hidden

\* The request at position p of a two-phase upload: media 1, lesson 1,
\* media 2, lesson 2, ...
IsInTurn(r, p) ==
    /\ r.kind = IF p % 2 = 1 THEN "media" ELSE "lesson"
    /\ r.item = (p + 1) \div 2

\* C13: on a skilltriks site the POSTs are media 1, lesson 1, media 2,
\* lesson 2, ... in this order; the lesson of an item is posted only once
\* its media was answered with success, the media of the next item only
\* once both calls of the item before were, and no POST is made while one is
\* pending.
TwoPhaseIsSequential ==
    siteType = "skilltriks" =>
       /\ \A p \in 1 .. Len(requests) :
             /\ IsInTurn(requests[p], p)
             /\ requests[p].kind = "lesson" => <<"media", requests[p].item>> \in committed
             /\ \A i \in 1 .. (requests[p].item - 1) :
                   <<"media", i>> \in committed /\ <<"lesson", i>> \in committed
       /\ \A c \in committed :
             \E p \in 1 .. Len(requests) :
                requests[p].kind = c[1] /\ requests[p].item = c[2]
       /\ uploadPc \in {"media", "lesson"} =>
             /\ requests # <<>>
             /\ requests[Len(requests)].kind = uploadPc
             /\ requests[Len(requests)].item = uploadIndex + 1
             /\ <<uploadPc, uploadIndex + 1>> \notin committed

\* Both calls of three items have been made, with success.
ThreeItemsUploaded ==
    /\ siteType = "skilltriks"
    /\ Len(requests) = 6
    /\ Cardinality(committed) = 6
    /\ lessonResponseData = <<1, 2, 3>>
    /\ ~hidden

\* The items both calls of which were answered with success.
FullyCommitted(c) == {i \in 1 .. MaxSliders : <<"media", i>> \in c /\ <<"lesson", i>> \in c}

\* C14: when a call of item k of n is answered with a failure (a failure
\* status, a media response without id or title, no response), the items
\* with both calls answered with success are exactly 1 .. k - 1 and stay so,
\* the progress text reads k - 1 of n, no request is added by the step nor
\* ever after.
FailureKeepsEarlierItems ==
    [][/\ \A outcome \in MediaOutcomes \ {"ok"} : MediaDone(outcome) =>
             /\ toast'.text = "UploadFailed"
             /\ FullyCommitted(committed') = 1 .. uploadIndex
             /\ uploadProgress' = Report(uploadIndex, uploadTotal,
                                         Percentage(uploadIndex, uploadTotal))
             /\ requests' = requests
             /\ uploadPc' = "idle"
       /\ \A outcome \in LessonOutcomes \ {"ok"} : LessonDone(outcome) =>
             /\ toast'.text = "UploadFailed"
             /\ FullyCommitted(committed') = 1 .. uploadIndex
             /\ uploadProgress' = Report(uploadIndex, uploadTotal,
                                         Percentage(uploadIndex, uploadTotal))
             /\ requests' = requests
             /\ uploadPc' = "idle"
       /\ uploadPc \in {"media", "lesson"} =>
             uploadCompleted = uploadIndex /\ uploadProgress.completed = uploadIndex
       /\ committed \subseteq committed'
       /\ (uploadPc = "idle" /\ requests # <<>>) => requests' = requests]_vars

\* Item 2 of 3 has failed at the creation of its lesson.
SecondOfThreeFailedAtLesson ==
    /\ toast = Toast("UploadFailed", 0)
    /\ uploadProgress = Report(1, 3, 33)
    /\ committed = {<<"media", 1>>, <<"lesson", 1>>, <<"media", 2>>}
    /\ Len(requests) = 4
    /\ uploadError = "Failed to create lesson."

\* C15: a media response with a success status but without an id or
\* without a title makes the upload fail: the media is committed, the lesson
\* of the item is not posted, nothing is posted for the items after it, the
\* failure toast is shown and resetTrimmerModal has run.
MalformedMediaAborts ==
    [][\A outcome \in {"noId", "noTitle"} : MediaDone(outcome) =>
          /\ <<"media", uploadIndex + 1>> \in committed'
          /\ uploadError' = MediaError(outcome)
          /\ toast'.text = "UploadFailed"
          /\ requests' = requests
          /\ requests[Len(requests)].kind = "media"
          /\ requests[Len(requests)].item = uploadIndex + 1
          /\ uploadPc' = "idle"
          /\ readyEvents' = readyEvents
          /\ Cleared']_vars

\* The media of the first of three items came back without a title.
FirstMediaUntitled ==
    /\ uploadError = "No title found in media response."
    /\ committed = {<<"media", 1>>}
    /\ Len(requests) = 1
    /\ uploadProgress = Report(0, 3, 0)
    /\ toast = Toast("UploadFailed", 0)

\* C16: the toast of a failed two-phase upload shows the message of the
\* backend when the response had one, and the generic text otherwise.
\* It does not hold: the catch of sendVideosToSkillTriks drops the Error.
FailureToastShowsBackendMessage ==
    (siteType = "skilltriks" /\ uploadError # "none" /\ toast.text # "none") =>
       toast.text = IF uploadError = "BackendMessage" THEN "BackendMessage"
                    ELSE "UploadFailed"

\* C17: the lessonResponseReady event has been dispatched exactly once when
\* an upload of either kind has succeeded, and never when one has failed.
\* It does not hold: sendVideos never calls setLessonResponseSend(true).
ReadyEventOncePerSuccess ==
    /\ toast.text \in {"LessonsCreated", "VideosUploaded"} => readyEvents = 1
    /\ toast.text \in {"UploadFailed", "BulkUploadFailed"} => readyEvents = 0
    /\ readyEvents <= 1

\* C18: while the reset of a successful upload is pending its delay is less
\* than 1000 ms and, unless the modal was closed, nothing is cleared yet and
\* the loader of the upload is shown.  It does not hold: the delay of
\* sendVideos is 1000 ms.
CompletedResetsWithinASecond ==
    resetTimer # 0 =>
       /\ resetTimer < 1000
       /\ ~hidden => (trimmedVideos # <<>> /\ sliders # <<>> /\ content = "uploader")

\* The toasts of a failure while clips are cut, the file-access error aside.
TranscodeFailures == ClipFailures \cup {"InvalidClip"}

\* C19, as the code has it: an invalid clip or a failed clip brings the
\* editor back with the ranges as they were and without a reset; a
\* file-access error and a failed upload of either kind run
\* resetTrimmerModal, which hides the modal and clears the ranges.
ErrorsReturnToEditorOrReset ==
    [][/\ toast'.text \in TranscodeFailures =>
             /\ content' = "editor"
             /\ sliders' = sliders
             /\ hidden' = hidden
       /\ toast'.text \in {"FileAccess", "UploadFailed", "BulkUploadFailed"} =>
             /\ Cleared'
             /\ content' = content]_vars

\* C19, as the specification has it: a failed upload brings the editor back
\* with the ranges as they were, as a failure of a clip does.
UploadErrorsReturnToEditor ==
    [][toast'.text \in TranscodeFailures \cup {"UploadFailed", "BulkUploadFailed"} =>
          /\ content' = "editor"
          /\ sliders' = sliders
          /\ hidden' = hidden]_vars

\* The upload of the second of two items has failed: the modal is hidden and
\* the ranges the artifacts were cut from are gone.
UploadFailureHasReset ==
    /\ toast = Toast("UploadFailed", 0)
    /\ Len(slidersAtTrim) = 2
    /\ Len(requests) = 3
    /\ sliders = <<>>
    /\ hidden /\ content = "uploader"

\* C20: the close button can be clicked whenever the modal is shown, and
\* right after its click, as after every other run of resetTrimmerModal, the
\* modal is hidden, trimmedVideos, sliders and lessonResponseData are empty,
\* videoState.file is null and lessonResponseSend is false.
CloseAlwaysResets ==
    /\ [](~hidden => ENABLED Close)
    /\ [][(Close \/ ResetTimerFired \/ hidden' # hidden) => Cleared']_vars

\* The modal closed while the media of the second item was being posted, the
\* record of the first item cleared.
ClosedDuringUpload ==
    /\ hidden
    /\ uploadPc = "media" /\ uploadIndex = 1
    /\ FullyCommitted(committed) = {1}
    /\ lessonResponseData = <<>>
    /\ toast = NoToast

\* ------------------------------------------------------------------ C21
\* The seconds a string of two or three fields of digits stands for.
SecondsOf(str) ==
    IF Len(str) = 2 THEN 60 * DecimalValue(str[1]) + DecimalValue(str[2])
    ELSE 3600 * DecimalValue(str[1]) + 60 * DecimalValue(str[2]) + DecimalValue(str[3])

\* MM:SS or HH:MM:SS, every field a non-empty string of digits.
IsTimeString(str) ==
    /\ Len(str) \in {2, 3}
    /\ \A k \in 1 .. Len(str) :
          str[k] # <<>> /\ \A c \in 1 .. Len(str[k]) : IsDigit(str[k][c])

\* C21: the classification of a time string of s seconds is the whole hours
\* of s when s >= 3600 and the minutes of s rounded up otherwise, for MM:SS
\* and for HH:MM:SS; "01:30" is 2 minutes, "59:59" is 60 minutes, "1:00:00"
\* is 1 hour.
DurationClassified ==
    (lessonTime # NoLessonTime) =>
        /\ IsTimeString(timeString) =>
              LET s == SecondsOf(timeString)
                  d == lessonTime.duration
              IN  IF s >= 3600
                  THEN /\ lessonTime.duration_type = "hour"
                       /\ d * 3600 <= s /\ s < (d + 1) * 3600
                  ELSE /\ lessonTime.duration_type = "minute"
                       /\ (d - 1) * 60 < s /\ s <= d * 60
        /\ (timeString = << <<"0", "1">>, <<"3", "0">> >>) =>
              lessonTime = [duration |-> 2, duration_type |-> "minute"]
        /\ (timeString = << <<"5", "9">>, <<"5", "9">> >>) =>
              lessonTime = [duration |-> 60, duration_type |-> "minute"]
        /\ (timeString = << <<"1">>, <<"0", "0">>, <<"0", "0">> >>) =>
              lessonTime = [duration |-> 1, duration_type |-> "hour"]

\* "59:59" has been classified as 60 minutes.
ClassifiedJustBelowTheHour ==
    /\ timeString = << <<"5", "9">>, <<"5", "9">> >>
    /\ lessonTime = [duration |-> 60, duration_type |-> "minute"]

\* ------------------------------------------------------------------ C22
\* The string has the wrong number of fields or a field that is not a number.
Unparseable(str) ==
    \/ Len(str) \notin {2, 3}
    \/ \E k \in 1 .. Len(str) : \E c \in 1 .. Len(str[k]) : ~IsDigit(str[k][c])

\* C22: the classification of an unparseable string is 0 minutes, never a
\* value that is not a number.
UnparseableIsZeroMinutes ==
    (lessonTime # NoLessonTime /\ Unparseable(timeString)) =>
        lessonTime = [duration |-> 0, duration_type |-> "minute"]

\* ------------------------------------------------------------------ C23
\* C23: a file is accepted exactly when its type is MP4 or WebM and its size
\* is at most 1024^3 bytes; a rejected file leaves the source reference, the
\* ranges and the screen as they were.
FileAcceptedWithinLimits ==
    [][\A type \in FileTypes, size \in FileSizes, dur \in Durations \cup {NaN} :
          AddFile(type, size, dur) =>
              IF type \in {"video/mp4", "video/webm"} /\ size <= 1024 * 1024 * 1024
              THEN content' = "validating" /\ videoFile' = type
              ELSE /\ videoFile' = videoFile
                   /\ sliders' = sliders
                   /\ content' = content /\ content' = "upload"]_vars

\* A file over the limit has just been turned away on the upload screen.
LargeFileTurnedAway ==
    /\ toast = Toast("FileTooLarge", 0)
    /\ content = "upload"
    /\ sliders = <<>>

\* ------------------------------------------------------------------ C24
\* The toasts of the failures: of the media validation, of the engine, of an
\* invalid clip, of a clip, of the upload.
FailureToasts ==
    {"InvalidMedia", "EngineUnavailable", "InvalidClip", "FileAccess", "Unexpected", "UploadFailed",
     "BulkUploadFailed"} \cup ClipFailures

\* The upload screen or the editor is on screen.
Editable == ~hidden /\ content \in {"upload", "editor"}

\* C24: a failure leaves the upload screen, the editor or the reset modal,
\* or the engine error screen whose retry can be clicked; and no screen
\* other than these is one that cannot be closed.
FailuresAreRecoverable ==
    /\ (toast.text \in FailureToasts) =>
          \/ Editable
          \/ hidden
          \/ content = "engineError" /\ ENABLED trimVideo /\ ENABLED Close
    /\ (~Editable /\ ~hidden) => ENABLED Close

\* The validation of a file has failed and the upload screen is back.
InvalidMediaBackAtUpload ==
    /\ toast = Toast("InvalidMedia", 0)
    /\ content = "upload" /\ ~hidden
    /\ videoFile = "null"

\* ------------------------------------------------------------------ C25
\* The phase the screen stands for: the validating placeholder belongs to
\* AwaitingUpload, the engine error screen to EditingTimeline, the progress
\* screen of the upload is Completed once the reset is scheduled.
Phase ==
    IF hidden THEN "Reset"
    ELSE IF content \in {"upload", "validating"} THEN "AwaitingUpload"
    ELSE IF content \in {"editor", "engineError"} THEN "EditingTimeline"
    ELSE IF content = "loader" THEN "Transcoding"
    ELSE IF content = "results" THEN "ReviewingResults"
    ELSE IF resetTimer # 0 THEN "Completed"
    ELSE "Uploading"

\* C25: Transcoding is entered only from EditingTimeline with a file and a
\* non-empty timeline, ReviewingResults only from Transcoding with every clip
\* cut, Uploading only from ReviewingResults, Completed only from Uploading;
\* the clip loop runs in no phase but Transcoding and the upload in none but
\* Uploading, the closed modal apart.
PhasesFollowTheTable ==
    [][/\ (Phase' = "Transcoding" /\ Phase # "Transcoding") =>
              Phase = "EditingTimeline" /\ videoFile # "null" /\ Len(sliders) > 0
       /\ (Phase' = "ReviewingResults" /\ Phase # "ReviewingResults") =>
              Phase = "Transcoding" /\ Len(trimmedVideos') = Len(slidersAtTrim)
       /\ (Phase' = "Uploading" /\ Phase # "Uploading") => Phase = "ReviewingResults"
       /\ (Phase' = "Completed" /\ Phase # "Completed") =>
              Phase \in {"Uploading", "ReviewingResults"} /\ uploadPc # "idle"
       /\ (trimPc' # "idle") => Phase' \in {"Transcoding", "Reset"}
       /\ (uploadPc' # "idle") => Phase' \in {"Uploading", "Reset"}]_vars

\* ------------------------------------------------------------------ C26
\* C26: a range or an artifact is removed only while more than one exists,
\* so that from the first range on every screen of the open modal has a
\* non-empty timeline; the progress screen of trimVideo is never shown for
\* an empty timeline, and a trim request on one runs no command.
NeverTranscodesEmpty ==
    [][/\ (\E index \in 1 .. MaxSliders : removeSlider(index)) =>
              Len(sliders) > 1 /\ Len(sliders') >= 1
       /\ (\E index \in 1 .. MaxSliders : removeTrimmedVideo(index)) =>
              /\ Len(trimmedVideos) > 1 /\ Len(trimmedVideos') >= 1
              /\ Len(sliders') >= 1
       /\ (trimVideo /\ Len(sliders) = 0) =>
              /\ content' = content /\ content' # "loader"
              /\ trimPc' = "idle"
              /\ commands' = commands
       /\ (~hidden' /\ content' \in {"loader", "engineError", "results", "uploader"}) =>
              Len(sliders') >= 1
       /\ (~hidden' /\ content' = "editor" /\ slidersRendered') => Len(sliders') >= 1]_vars

\* The editor shows one range, the second of two: the first was removed, and
\* no Remove button is left.
OnlySecondRangeLeft ==
    /\ ~hidden /\ content = "editor" /\ slidersRendered
    /\ Len(sliders) = 1
    /\ FGt(sliders[1].startTime, 0)
    /\ ~RemoveOffered(Len(sliders))

RetryBacksOffExponentially ==
    [][/\ (preloadAttempts' # preloadAttempts /\ preloadAttempts' \in {1, 2}) =>
             /\ preloadTimer' = IF preloadAttempts' = 1 THEN 1000 ELSE 2000
             /\ preloadTimer' <= 5000
             /\ preloadTimer' = 1000 * 2 ^ (preloadAttempts' - 1)
       /\ (loader.preload # "idle" /\ loader'.preload = "idle"
             /\ preloadAttempts' = preloadAttempts) => preloadTimer' = 0
       /\ (preloadTimer' # 0 /\ preloadTimer' # preloadTimer) =>
             preloadAttempts' = preloadAttempts + 1]_vars

\* The second run of preloadFFmpeg has failed: its retry waits 2000 ms.
SecondRetryScheduled ==
    /\ preloadAttempts = 2
    /\ preloadTimer = 2000
    /\ loader.preload = "idle"

\* ------------------------------------------------------------------ C29
\* loadFFmpeg would return at its first line.
Ready == ffmpegLoaded /\ ffmpeg = "created" /\ core = "loaded"

\* C29: no caller of loadFFmpeg starts to wait for this.ffmpeg.load() while
\* the other one waits for it or once the core is loaded; and a call of
\* loadFFmpeg made when the engine is ready waits for nothing.
LoadsOnlyOnce ==
    [][/\ (loader'.trim = "load" /\ loader.trim # "load") =>
             loader.preload # "load" /\ core # "loaded"
       /\ (loader'.preload = "load" /\ loader.preload # "load") =>
             loader.trim # "load" /\ core # "loaded"
       /\ (Ready /\ (trimVideo \/ preloadFFmpeg)) =>
             /\ loader' = loader
             /\ ffmpegScriptLoaded' = ffmpegScriptLoaded]_vars

\* The checkEndTime listeners of slider i on the view video v.
WatchesOf(v, i) == {k \in 1 .. Len(v.watches) : v.watches[k] = i}

\* C30: a preview started on the start grabber of a slider loses its
\* checkEndTime when the playback reaches the endTime of the slider, when that
\* endTime changes and when a drag starts: after each of these steps no
\* checkEndTime of the slider listens any more.
PreviewWatchDetaches ==
    [][\A i \in 1 .. Len(sliders) :
          (/\ WatchesOf(viewVideo, i) # {}
           /\ i <= Len(sliders')
           /\ \/ FGe(viewVideo'.currentTime, sliders[i].endTime) /\ viewVideo'.paused
              \/ sliders'[i].endTime # sliders[i].endTime
              \/ drag'.active /\ ~drag.active)
          => WatchesOf(viewVideo', i) = {}]_vars

\* C31: when the unlink of the input or of the output of a clip fails after
\* its artifact was pushed, the artifact stays at the end of trimmedVideos, no
\* toast is shown, and the loop goes on with the next clip or, after the last
\* clip, renders the results table of all the artifacts.
CleanupFailureIsNotFatal ==
    [][(/\ videoFile # "null"
        /\ \E cleanup \in {"failFirst", "failSecond"} : ClipRunDone("data", cleanup))
       => /\ trimmedVideos' = Append(trimmedVideos,
                 Artifact(clipIndex, accurateSliders[clipIndex + 1], videoFile, siteType))
          /\ toast' = NoToast
          /\ IF clipIndex + 1 < Len(accurateSliders)
             THEN trimPc' = "clipFetch" /\ clipIndex' = clipIndex + 1 /\ content' = "loader"
             ELSE /\ content' = "results"
                  /\ Len(previews') = Len(trimmedVideos')
                  /\ Len(trimmedVideos') = Len(slidersAtTrim)]_vars

\* The results table of two clips, the files of both still in the FFmpeg
\* file system.
ResultsDespiteFailedCleanup ==
    /\ content = "results"
    /\ Len(trimmedVideos) = 2
    /\ {<<"input", 1>>, <<"video", 1>>, <<"input", 2>>} \subseteq fs

\* The positions of the ffmpeg.run calls among the commands of trimVideo.
Runs == {k \in 1 .. Len(commands) : commands[k][1] = "run"}

\* C32: the k-th ffmpeg.run of a trimVideo is the one of clip k; it is called
\* only after the output of clip k - 1 was read and its artifact pushed (its
\* files are unlinked right after the push); no call of this.ffmpeg follows a
\* run before that run has resolved, so only the last command can be a run in
\* flight, and it is one exactly while trimVideo awaits ffmpeg.run.
TranscodingIsSequential ==
    /\ \A k \in Runs :
          /\ commands[k][2] = Cardinality({j \in Runs : j <= k})
          /\ commands[k][2] > 1 =>
                \E j \in 1 .. (k - 1) :
                   /\ commands[j] = <<"readFile", commands[k][2] - 1>>
                   /\ j + 1 < k /\ commands[j + 1] = <<"unlink", commands[k][2] - 1>>
          /\ k < Len(commands) => commands[k + 1] = <<"readFile", commands[k][2]>>
    /\ trimPc = "clipRun" => Len(commands) \in Runs /\ commands[Len(commands)][2] = clipIndex + 1
    /\ (trimPc # "clipRun" /\ Len(commands) \in Runs) => trimPc = "idle"

\* ffmpeg.run of the third clip is in flight.
ThirdRunInFlight ==
    /\ trimPc = "clipRun"
    /\ clipIndex = 2
    /\ Cardinality(Runs) = 3

\* C33: the artifact trimVideo pushes for the range at index i (from 0) is
\* named lesson{i+1} on a skilltriks site and video{i+1} on any other; it is
\* the (i+1)-th of trimmedVideos, so the names of a batch are numbered 1..n in
\* the order of the ranges.
DefaultNamesNumbered ==
    [][Len(trimmedVideos') = Len(trimmedVideos) + 1
       => LET n == Len(trimmedVideos')
          IN  /\ n = clipIndex + 1
              /\ trimmedVideos'[n].name =
                    <<IF siteType = "skilltriks" THEN "lesson" ELSE "video", clipIndex + 1>>
              /\ trimmedVideos'[n].clip = accurateSliders[n]
              /\ \A j \in 1 .. n : trimmedVideos'[j].name[2] = j
              /\ \A j \in 1 .. n : trimmedVideos'[j].name[1] = trimmedVideos'[n].name[1]]_vars

\* The results of three clips on a skilltriks site: lesson1, lesson2, lesson3.
ThreeLessonsNamed ==
    /\ content = "results"
    /\ siteType = "skilltriks"
    /\ Len(trimmedVideos) = 3
    /\ \A j \in 1 .. 3 : trimmedVideos[j].name = <<"lesson", j>>

\* C34: a step of trimVideo that reports k clips completed has pushed the
\* artifact of clip k: the count reported never exceeds the number of
\* artifacts in trimmedVideos.
ReportedOnlyAfterWrapped ==
    [][(trimPc = "clipRun" /\ progress'.completed > progress.completed)
       => Len(trimmedVideos') >= progress'.completed]_vars

\* C35: while the results table is shown, #addlessons is in the footer only
\* when loadedmetadata has fired on the preview of every artifact and no
\* preview has reported an error.
SubmitOnlyAfterAllLoaded ==
    (content = "results" /\ addlessons)
    => \A i \in 1 .. Len(previews) : previews[i] \in {"metadata", "canplay"}

\* C36: once the modal is closed, the rest of a trimVideo or of a
\* sendVideosToSkillTriks that was in flight dispatches no
\* lessonResponseReady, pushes nothing onto trimmedVideos or
\* lessonResponseData, and leaves the modal hidden.
ClosedStaysClosed ==
    [][(hidden /\ (trimPc # "idle" \/ uploadPc # "idle"))
       => /\ readyEvents' = readyEvents
          /\ Len(trimmedVideos') <= Len(trimmedVideos)
          /\ Len(lessonResponseData') <= Len(lessonResponseData)
          /\ hidden']_vars

\* Artifact k was cut at the whole seconds of slider k, which is the slider
\* of the trimVideo call the number in the name of the artifact counts.
ArtifactsFollowSliders ==
    /\ Len(trimmedVideos) = Len(sliders)
    /\ \A k \in 1 .. Len(trimmedVideos) :
          /\ trimmedVideos[k].clip = AccurateSliders(sliders)[k]
          /\ trimmedVideos[k].name[2] \in 1 .. Len(slidersAtTrim)
          /\ sliders[k] = slidersAtTrim[trimmedVideos[k].name[2]]

\* C37: whenever the results table is shown, after any removals, there are as
\* many artifacts as sliders and artifact k is the clip of slider k; Back To
\* Edit empties trimmedVideos and leaves the sliders, those of the artifacts
\* that were not removed, as they are.
ResultsFollowRanges ==
    [][/\ (content' = "results" /\ ~hidden') => ArtifactsFollowSliders'
       /\ (content = "results" /\ ~hidden /\ content' = "editor" /\ ~hidden')
             => trimmedVideos' = <<>> /\ sliders' = sliders]_vars

\* The first of three artifacts has been removed.
FirstOfThreeArtifactsRemoved ==
    /\ content = "results" /\ ~hidden
    /\ Len(slidersAtTrim) = 3
    /\ Len(trimmedVideos) = 2
    /\ trimmedVideos[1].name[2] = 2
    /\ sliders = Tail(slidersAtTrim)

\* C38: a step that ends trimVideo, after the last clip or in the catch of a
\* failed clip, leaves none of the input_{n} and video_{n} files in the FFmpeg
\* file system, provided every FS('unlink') of the run has succeeded (the
\* file system held only files of the current clip, and the unlink calls of
\* this step succeed).
RunLeavesNoFiles ==
    [][(/\ fs \subseteq {<<"input", clipIndex + 1>>, <<"video", clipIndex + 1>>}
        /\ trimPc' = "idle"
        /\ \/ \E outcome \in {"reject", "missing", "empty", "data"} : ClipRunDone(outcome, "ok")
           \/ \E ok \in BOOLEAN, writeOk \in BOOLEAN : ClipFetchDone(ok, writeOk))
       => fs' = {}]_vars

\* C39: the classification of the string convertToHHMMSS makes of d whole
\* seconds is the whole hours of d when d >= 3600 and the minutes of d
\* rounded up otherwise; the fields of the string add up to d seconds.
RoundTripLosesNothing ==
    /\ timeString # <<>> =>
          /\ IsTimeString(timeString)
          /\ SecondsOf(timeString) = clipSeconds
    /\ lessonTime # NoLessonTime =>
          lessonTime = IF clipSeconds >= 3600
                       THEN [duration |-> clipSeconds \div 3600, duration_type |-> "hour"]
                       ELSE [duration |-> (clipSeconds + 59) \div 60,
                             duration_type |-> "minute"]

\* 1:59:59 is one hour.
AlmostTwoHoursIsOneHour ==
    /\ clipSeconds = 7199
    /\ timeString = <<<<"0", "1">>, <<"5", "9">>, <<"5", "9">>>>
    /\ lessonTime = [duration |-> 1, duration_type |-> "hour"]

====
